---------------------------- MODULE Spec2Model ----------------------------
(***************************************************************************)
(* Model of the Pokemon TCG stock tracker: the request-serving wrapper     *)
(* (src/api/index.py) and the scraper (src/api/pokemon_tcg_tracker.py).    *)
(*                                                                         *)
(* Text the program inspects (product names, category labels, threshold    *)
(* keys) is a sequence of one-character strings, so that str.lower() and   *)
(* the substring test `a in b` are computed character by character.        *)
(* Python's None is the empty sequence and a present value x is <<x>>.     *)
(* Prices are in cents.                                                    *)
(*                                                                         *)
(* The module holds several specifications over one set of variables:      *)
(*   Spec          the request-serving wrapper (triggers, runs, reads)     *)
(*   SpecFair      Spec with the scheduling of the event loop              *)
(*   SpecFetch     PokemonTCGTracker.fetch_page                            *)
(*   SpecClassify  PokemonTCGTracker.determine_product_type                *)
(*   SpecPrice     the retail-price check of the five retailer checks      *)
(*   SpecListing   a retailer check's handling of one product element      *)
(*   SpecValidate  PokemonTCGTracker.validate_products                     *)
(*   SpecSites     one call of PokemonTCGTracker.check_all_sites (--once)  *)
(*   SpecRun       PokemonTCGTracker.run, the loop over check_all_sites    *)
(*   SpecTypes     check_all_sites over listings of every category         *)
(* Each leaves the variables of the others at their initial values.        *)
(***************************************************************************)
EXTENDS Naturals, Sequences, FiniteSets, TLC

VARIABLES
    is_vercel,          \* os.environ VERCEL == "1"
    is_scraping,        \* index.py global is_scraping
    last_results,       \* index.py global last_results
    last_update_time,   \* index.py global last_update_time
    tasks,              \* background tasks added by scrape, by slot
    response,           \* the response being sent, NoResponse once it is sent
    fetch_pc,           \* fetch_page: "idle", "loop" (in the for loop) or "returned"
    fetch_url,          \* fetch_page: its argument
    attempt,            \* fetch_page: the loop variable
    fetch_result,       \* fetch_page: what it returned
    sleeps,             \* history: the arguments of time.sleep, in order
    attempts,           \* history: what each requests.get came to, in order
    product_name,       \* determine_product_type: its argument
    product_type,       \* determine_product_type: what it returned, None before the call
    retail_price_thresholds, \* self.retail_price_thresholds, in the mapping's order
    cand,               \* the listing a retailer check is looking at
    cand_type,          \* the retailer check's product_type, None before it is set
    is_retail_price,    \* the retailer check's is_retail_price, None before the loop
    raw_listing,        \* a retailer check's loop: the product element it is at
    listing_pc,         \* a retailer check's loop: "idle", "at" (the element) or "done"
    extracted,          \* a retailer check's loop: what it appended for the element, None for nothing
    tcg_keywords,       \* validate_products: its tcg_keywords
    recent_expansions,  \* self.recent_expansions
    definite_terms,     \* validate_products: the terms of has_definite_tcg_terms
    raw_results,        \* check_all_sites' raw_results, the argument of validate_products
    validated_products, \* validate_products: what it returned, None before it returns
    validated_before,   \* what validate_products returned before a term was removed, None at first
    pages,              \* by retailer: what fetch_page returns for its page, None or the product elements
    email_config,       \* self.email_config
    tracker_interval,   \* self.check_interval
    sites_pc,           \* check_all_sites: "idle", the step it is at, "returned" or "raised"
    in_stock_items,     \* self.in_stock_items
    returned,           \* check_all_sites: what it returned, None before it returns
    fetched,            \* history: the arguments of fetch_page in this call of check_all_sites
    files,              \* the results_<timestamp>.json files: by timestamp, who wrote it and what
    snapshots,          \* history: the timestamps of the files the calls of check_all_sites opened
    outbox,             \* history: the messages server.send_message delivered
    smtp_log,           \* history: how each SMTP session of this call of check_all_sites ended
    clock,              \* the time datetime.now() gives, in seconds
    run_pc,             \* run: "once" (no loop: --once), "loop", "sleep", "cooldown" or "stopped"
    runs,               \* calls of check_all_sites so far
    config_json,        \* what config.json holds of check_interval, None when it has no such key
    run_slept           \* run: the argument of its last time.sleep, None before the first

apiVars == <<is_vercel, is_scraping, last_results, last_update_time, tasks, response>>

fetchVars == <<fetch_pc, fetch_url, attempt, fetch_result, sleeps, attempts>>

classifyVars == <<product_name, product_type>>

priceVars == <<retail_price_thresholds, cand, cand_type, is_retail_price>>

listingVars == <<raw_listing, listing_pc, extracted>>

allowVars == <<tcg_keywords, recent_expansions, definite_terms>>

validateVars == <<allowVars, raw_results, validated_products, validated_before>>

configVars == <<pages, email_config, tracker_interval, config_json>>

sitesVars == <<configVars, sites_pc, in_stock_items, returned, fetched, files, snapshots, outbox,
               smtp_log, clock, run_pc, runs, run_slept>>

vars == <<apiVars, fetchVars, classifyVars, priceVars, listingVars, validateVars, sitesVars>>

\* what the request-serving wrapper leaves alone
nonApiVars == <<fetchVars, classifyVars, priceVars, listingVars, validateVars, sitesVars>>

\* what fetch_page leaves alone
nonFetchVars == <<apiVars, classifyVars, priceVars, listingVars, validateVars, sitesVars>>

\* what determine_product_type leaves alone
nonClassifyVars == <<apiVars, fetchVars, priceVars, listingVars, validateVars, sitesVars>>

\* what the retailer checks' price test leaves alone
nonPriceVars == <<apiVars, fetchVars, classifyVars, listingVars, validateVars, sitesVars>>

\* what a retailer check's loop over product elements leaves alone
nonListingVars == <<apiVars, fetchVars, classifyVars, cand, cand_type, is_retail_price, validateVars, sitesVars>>

\* what validate_products leaves alone
nonValidateVars == <<apiVars, fetchVars, classifyVars, priceVars, listingVars, sitesVars>>

\* what check_all_sites and run leave alone
nonSitesVars == <<apiVars, fetchVars, classifyVars, priceVars, listingVars, allowVars, validated_before>>

---------------------------------------------------------------------------
(* Bounds of the model *)

\* background tasks that may be scheduled or running at once
MaxTasks == 2

\* latest time datetime.now() returns
MaxClock == 1

\* words in a generated product name
MaxWords == 2

\* keys in a threshold table
MaxKeys == 2

\* products handed to validate_products
MaxProducts == 2

\* terms taken off the allow lists
MaxRemoved == 1

\* product elements on the retailers' pages, all pages together
MaxElements == 1

\* retailers whose page fetch_page cannot get
MaxFailed == 1

\* calls of check_all_sites by run
MaxRuns == 3

---------------------------------------------------------------------------
(* Text *)

None == <<>>

Some(x) == <<x>>

UpperCase == <<"A","B","C","D","E","F","G","H","I","J","K","L","M","N","O","P","Q","R","S","T","U","V","W","X","Y","Z">>

LowerCase == <<"a","b","c","d","e","f","g","h","i","j","k","l","m","n","o","p","q","r","s","t","u","v","w","x","y","z">>

ToLower == [c \in {UpperCase[i] : i \in DOMAIN UpperCase} |->
               LowerCase[CHOOSE i \in DOMAIN UpperCase : UpperCase[i] = c]]

ToUpper == [c \in {LowerCase[i] : i \in DOMAIN LowerCase} |->
               UpperCase[CHOOSE i \in DOMAIN LowerCase : LowerCase[i] = c]]

\* one character of str.lower()
LowerChar(c) == IF c \in DOMAIN ToLower THEN ToLower[c] ELSE c

\* str.lower()
lower(s) == [i \in DOMAIN s |-> LowerChar(s[i])]

\* one character of str.upper()
UpperChar(c) == IF c \in DOMAIN ToUpper THEN ToUpper[c] ELSE c

\* str.upper()
upper(s) == [i \in DOMAIN s |-> UpperChar(s[i])]

\* Python's `sub in s` on strings
Contains(sub, s) ==
    \E i \in 0..(Len(s) - Len(sub)) : \A j \in 1..Len(sub) : s[i + j] = sub[j]

---------------------------------------------------------------------------
(* src/api/index.py : data *)

API_KEY == "your-default-api-key"

\* values of the X-API-Key header; None when the header is absent
ApiKeys == {Some(API_KEY), Some("wrong-key"), None}

Stores == {"Pokemon Center", "Target", "Walmart", "Best Buy", "GameStop"}

PLACEHOLDER_IMAGE == "/api/placeholder/400/320"

sample_products == <<
    [name |-> <<"P","o","k","é","m","o","n"," ","T","C","G",":"," ","S","c","a","r","l","e","t"," ","&"," ","V","i","o","l","e","t"," ","-"," ","T","w","i","l","i","g","h","t"," ","M","a","s","q","u","e","r","a","d","e"," ","B","o","o","s","t","e","r"," ","B","o","x">>,
     price |-> 14399, url |-> "https://www.pokemoncenter.com/product/699-17070/",
     store |-> "Pokemon Center", type |-> <<"b","o","o","s","t","e","r"," ","b","o","x">>],
    [name |-> <<"P","o","k","é","m","o","n"," ","T","C","G",":"," ","S","c","a","r","l","e","t"," ","&"," ","V","i","o","l","e","t"," ","-"," ","T","w","i","l","i","g","h","t"," ","M","a","s","q","u","e","r","a","d","e"," ","E","l","i","t","e"," ","T","r","a","i","n","e","r"," ","B","o","x">>,
     price |-> 4999, url |-> "https://www.target.com/p/pokemon-tcg-scarlet-violet-elite-trainer-box/-/A-88392018",
     store |-> "Target", type |-> <<"e","l","i","t","e"," ","t","r","a","i","n","e","r"," ","b","o","x">>],
    [name |-> <<"P","o","k","é","m","o","n"," ","T","C","G",":"," ","P","a","l","d","e","a","n"," ","F","a","t","e","s"," ","P","r","e","m","i","u","m"," ","C","o","l","l","e","c","t","i","o","n"," ","-"," ","M","i","r","a","i","d","o","n"," ","e","x">>,
     price |-> 3999, url |-> "https://www.bestbuy.com/site/pokemon-tcg-paldean-fates-premium-collection/6566306.p",
     store |-> "Best Buy", type |-> <<"p","r","e","m","i","u","m"," ","c","o","l","l","e","c","t","i","o","n">>],
    [name |-> <<"P","o","k","é","m","o","n"," ","T","C","G",":"," ","S","c","a","r","l","e","t"," ","&"," ","V","i","o","l","e","t"," ","-"," ","T","w","i","l","i","g","h","t"," ","M","a","s","q","u","e","r","a","d","e"," ","3","-","P","a","c","k"," ","B","l","i","s","t","e","r">>,
     price |-> 1299, url |-> "https://www.walmart.com/ip/pokemon-tcg-blister-pack/645383971",
     store |-> "Walmart", type |-> <<"b","l","i","s","t","e","r"," ","p","a","c","k">>],
    [name |-> <<"P","o","k","é","m","o","n"," ","T","C","G",":"," ","C","r","o","w","n"," ","Z","e","n","i","t","h"," ","S","p","e","c","i","a","l"," ","C","o","l","l","e","c","t","i","o","n"," ","-"," ","P","i","k","a","c","h","u"," ","V","M","A","X">>,
     price |-> 2499, url |-> "https://www.gamestop.com/pokemon-tcg-crown-zenith-special-collection/1992913.html",
     store |-> "GameStop", type |-> <<"s","p","e","c","i","a","l"," ","c","o","l","l","e","c","t","i","o","n">>] >>

\* class Product
Product(name, price, url, store, type, image) ==
    [name |-> name, price |-> price, url |-> url, store |-> store, type |-> type, image |-> image]

\* class ScraperConfig
ScraperConfig(retailers, thresholds, check_interval) ==
    [retailers |-> retailers, thresholds |-> thresholds, check_interval |-> check_interval]

\* the request bodies the model posts to /api/scrape
Configs == {
    ScraperConfig({"Pokemon Center", "Target"},
                  <<[key |-> <<"p","a","c","k">>, ceiling |-> 500], [key |-> <<"B","o","o","s","t","e","r"," ","B","o","x">>, ceiling |-> 15000]>>, 1800),
    ScraperConfig({}, <<>>, 1800) }

NoConfig == ScraperConfig({}, <<>>, 0)

\* what the scraper subprocess may print: text that is no JSON, or a JSON list of
\* records, a record possibly lacking a field
ScraperOutputs == {
    [json |-> FALSE, records |-> <<>>],
    [json |-> TRUE, records |-> <<
        [name |-> <<"P","a","l","d","e","a"," ","B","o","o","s","t","e","r"," ","B","o","x">>, price |-> 14399, url |-> "https://www.pokemoncenter.com/product/699",
         store |-> "Pokemon Center", type |-> <<"b","o","o","s","t","e","r"," ","b","o","x">>],
        [name |-> <<"S","c","a","r","l","e","t"," ","T","i","n">>, price |-> 1999, url |-> "https://www.target.com/p/A-1",
         store |-> "Target", type |-> <<"t","i","n">>],
        [name |-> <<"S","c","a","r","l","e","t"," ","3","-","P","a","c","k"," ","B","l","i","s","t","e","r">>, price |-> 1299, url |-> "https://www.walmart.com/ip/645383971",
         store |-> "Walmart", type |-> <<"b","o","o","s","t","e","r"," ","p","a","c","k">>] >>],
    [json |-> TRUE, records |-> <<
        [name |-> <<"V","i","o","l","e","t"," ","T","i","n">>, price |-> 1999, store |-> "Target", type |-> <<"t","i","n">>] >>] }

FreeTask == [pc |-> "none", kind |-> "none", config |-> NoConfig, products |-> <<>>]

TaskIds == 1..MaxTasks

NoResponse == [op |-> "none", status |-> 0, body |-> <<>>]

\* the previous response has been sent
Sent == response = NoResponse

\* the values datetime.now() may return: never earlier than the last one taken
Now == IF last_update_time = None THEN 0..MaxClock ELSE last_update_time[1]..MaxClock

\* datetime.isoformat()
isoformat(t) == <<"iso", t>>

---------------------------------------------------------------------------
(* src/api/index.py : read endpoints *)

get_products ==
    /\ Sent
    /\ response' = [op |-> "get_products", status |-> 200, body |-> last_results]
    /\ UNCHANGED <<nonApiVars, is_vercel, is_scraping, last_results, last_update_time, tasks>>

get_status ==
    /\ Sent
    /\ response' = [op |-> "get_status", status |-> 200,
                    body |-> [last_update |-> IF last_update_time # None
                                              THEN Some(isoformat(last_update_time[1])) ELSE None,
                              products_count |-> Len(last_results),
                              is_scraping |-> is_scraping,
                              retailers |-> {last_results[i].store : i \in DOMAIN last_results}]]
    /\ UNCHANGED <<nonApiVars, is_vercel, is_scraping, last_results, last_update_time, tasks>>

\* the response leaves the server
send_response ==
    /\ ~Sent
    /\ response' = NoResponse
    /\ UNCHANGED <<nonApiVars, is_vercel, is_scraping, last_results, last_update_time, tasks>>

---------------------------------------------------------------------------
(* src/api/index.py : POST /api/scrape *)

\* the dependency get_api_key: TRUE when it returns, FALSE when it raises 403
get_api_key(api_key) == api_key = Some(API_KEY)

\* background_tasks.add_task: the task takes the first free slot
add_task(config) ==
    \E t \in TaskIds :
       /\ tasks[t].pc = "none"
       /\ \A u \in 1..(t - 1) : tasks[u].pc # "none"
       /\ tasks' = [tasks EXCEPT ![t] =
              [FreeTask EXCEPT !.pc = "scheduled",
                               !.kind = IF is_vercel THEN "run_scraper" ELSE "run_scraper_local",
                               !.config = config]]

\* the handler without its test of is_scraping
scrape_unchecked(config) ==
    /\ Sent
    /\ add_task(config)
    /\ response' = [op |-> "scrape", status |-> 200, body |-> <<>>]
    /\ UNCHANGED <<nonApiVars, is_vercel, is_scraping, last_results, last_update_time>>

\* the handler body; it has no await, so it runs as one step
scrape(config) ==
    /\ Sent
    /\ IF is_scraping
       THEN /\ response' = [op |-> "scrape", status |-> 409, body |-> <<>>]
            /\ UNCHANGED <<nonApiVars, is_vercel, is_scraping, last_results, last_update_time, tasks>>
       ELSE /\ add_task(config)
            /\ response' = [op |-> "scrape", status |-> 200, body |-> <<>>]
            /\ UNCHANGED <<nonApiVars, is_vercel, is_scraping, last_results, last_update_time>>

\* a POST /api/scrape request: the dependency, then the handler
post_scrape(config, api_key) ==
    IF get_api_key(api_key)
    THEN scrape(config)
    ELSE /\ Sent
         /\ response' = [op |-> "scrape", status |-> 403, body |-> <<>>]
         /\ UNCHANGED <<nonApiVars, is_vercel, is_scraping, last_results, last_update_time, tasks>>

---------------------------------------------------------------------------
(* src/api/index.py : run_scraper *)

RECURSIVE convert_sample(_, _, _)
\* the loop `for item in filtered_results: products.append(Product(...))`
convert_sample(filtered, i, products) ==
    IF i > Len(filtered) THEN products
    ELSE convert_sample(filtered, i + 1,
             Append(products, Product(filtered[i].name, filtered[i].price, filtered[i].url,
                                      filtered[i].store, filtered[i].type, PLACEHOLDER_IMAGE)))

\* `[r for r in sample_products if r["store"] in config.retailers]`
filter_sample(config) == SelectSeq(sample_products, LAMBDA r : r.store \in config.retailers)

\* is_scraping = True
run_scraper_start(t) ==
    /\ Sent
    /\ tasks[t].pc = "scheduled"
    /\ tasks[t].kind = "run_scraper"
    /\ is_scraping' = TRUE
    /\ tasks' = [tasks EXCEPT ![t].pc = "started"]
    /\ UNCHANGED <<nonApiVars, is_vercel, last_results, last_update_time, response>>

\* a build that appends each product to the served list as it is made
run_scraper_build_in_place(t) ==
    /\ Sent
    /\ tasks[t].pc = "started"
    /\ tasks[t].kind = "run_scraper"
    /\ LET filtered == filter_sample(tasks[t].config)
           n == Len(tasks[t].products)
       IN  IF n < Len(filtered)
           THEN LET grown == convert_sample(SubSeq(filtered, 1, n + 1), n + 1, tasks[t].products)
                IN  /\ tasks' = [tasks EXCEPT ![t].products = grown]
                    /\ last_results' = grown
           ELSE /\ tasks' = [tasks EXCEPT ![t].pc = "built"]
                /\ UNCHANGED last_results
    /\ UNCHANGED <<nonApiVars, is_vercel, is_scraping, last_update_time, response>>

\* the filter and the conversion loop: they touch only locals, so one step
run_scraper_build(t) ==
    /\ Sent
    /\ tasks[t].pc = "started"
    /\ tasks[t].kind = "run_scraper"
    /\ tasks' = [tasks EXCEPT ![t].pc = "built",
                              ![t].products = convert_sample(filter_sample(tasks[t].config), 1, <<>>)]
    /\ UNCHANGED <<nonApiVars, is_vercel, is_scraping, last_results, last_update_time, response>>

\* last_results = products
run_scraper_publish(t) ==
    /\ Sent
    /\ tasks[t].pc = "built"
    /\ tasks[t].kind = "run_scraper"
    /\ last_results' = tasks[t].products
    /\ tasks' = [tasks EXCEPT ![t].pc = "published"]
    /\ UNCHANGED <<nonApiVars, is_vercel, is_scraping, last_update_time, response>>

\* last_update_time = datetime.now()
run_scraper_stamp(t) ==
    /\ Sent
    /\ tasks[t].pc = "published"
    /\ tasks[t].kind = "run_scraper"
    /\ \E now \in Now : last_update_time' = Some(now)
    /\ tasks' = [tasks EXCEPT ![t].pc = "stamped"]
    /\ UNCHANGED <<nonApiVars, is_vercel, is_scraping, last_results, response>>

\* finally: is_scraping = False
run_scraper_finally(t) ==
    /\ Sent
    /\ tasks[t].pc = "stamped"
    /\ tasks[t].kind = "run_scraper"
    /\ is_scraping' = FALSE
    /\ tasks' = [tasks EXCEPT ![t] = FreeTask]
    /\ UNCHANGED <<nonApiVars, is_vercel, last_results, last_update_time, response>>

---------------------------------------------------------------------------
(* src/api/index.py : run_scraper_local *)

RECURSIVE local_product_type(_, _, _)
\* the loop over config.thresholds.keys() with its break; "other" when no key matches
local_product_type(thresholds, i, name) ==
    IF i > Len(thresholds) THEN <<"o","t","h","e","r">>
    ELSE IF Contains(lower(thresholds[i].key), lower(name)) THEN thresholds[i].key
    ELSE local_product_type(thresholds, i + 1, name)

RECURSIVE convert_local(_, _, _, _)
\* the loop `for item in filtered_results: ... products.append(Product(...))`
convert_local(filtered, thresholds, i, products) ==
    IF i > Len(filtered) THEN products
    ELSE convert_local(filtered, thresholds, i + 1,
             Append(products, Product(filtered[i].name, filtered[i].price, filtered[i].url,
                                      filtered[i].store,
                                      local_product_type(thresholds, 1, filtered[i].name),
                                      PLACEHOLDER_IMAGE)))

\* `[r for r in results if r["store"] in config.retailers]`
filter_local(records, config) == SelectSeq(records, LAMBDA r : r.store \in config.retailers)

\* whether parsing, filtering and converting the output raises: json.loads on text
\* that is no JSON, r["store"] on a record without it, item[...] on a kept record
\* without the field
local_raises(output, config) ==
    \/ ~output.json
    \/ \E i \in DOMAIN output.records : "store" \notin DOMAIN output.records[i]
    \/ \E i \in DOMAIN output.records :
          /\ output.records[i].store \in config.retailers
          /\ {"name", "price", "url"} \ DOMAIN output.records[i] # {}

\* is_scraping = True
run_scraper_local_start(t) ==
    /\ Sent
    /\ tasks[t].pc = "scheduled"
    /\ tasks[t].kind = "run_scraper_local"
    /\ is_scraping' = TRUE
    /\ tasks' = [tasks EXCEPT ![t].pc = "started"]
    /\ UNCHANGED <<nonApiVars, is_vercel, last_results, last_update_time, response>>

\* the subprocess, json.loads, the filter and the conversion loop: they touch only
\* locals, so one step; an exception leads to the handlers and then to finally
run_scraper_local_build(t) ==
    /\ Sent
    /\ tasks[t].pc = "started"
    /\ tasks[t].kind = "run_scraper_local"
    /\ \E output \in ScraperOutputs :
          IF local_raises(output, tasks[t].config)
          THEN tasks' = [tasks EXCEPT ![t].pc = "failed"]
          ELSE tasks' = [tasks EXCEPT ![t].pc = "built",
                             ![t].products = convert_local(filter_local(output.records, tasks[t].config),
                                                           tasks[t].config.thresholds, 1, <<>>)]
    /\ UNCHANGED <<nonApiVars, is_vercel, is_scraping, last_results, last_update_time, response>>

\* last_results = products
run_scraper_local_publish(t) ==
    /\ Sent
    /\ tasks[t].pc = "built"
    /\ tasks[t].kind = "run_scraper_local"
    /\ last_results' = tasks[t].products
    /\ tasks' = [tasks EXCEPT ![t].pc = "published"]
    /\ UNCHANGED <<nonApiVars, is_vercel, is_scraping, last_update_time, response>>

\* last_update_time = datetime.now()
run_scraper_local_stamp(t) ==
    /\ Sent
    /\ tasks[t].pc = "published"
    /\ tasks[t].kind = "run_scraper_local"
    /\ \E now \in Now : last_update_time' = Some(now)
    /\ tasks' = [tasks EXCEPT ![t].pc = "stamped"]
    /\ UNCHANGED <<nonApiVars, is_vercel, is_scraping, last_results, response>>

\* a run that empties the served results when it has failed
run_scraper_local_finally_reset(t) ==
    /\ Sent
    /\ tasks[t].pc \in {"stamped", "failed"}
    /\ tasks[t].kind = "run_scraper_local"
    /\ is_scraping' = FALSE
    /\ last_results' = IF tasks[t].pc = "failed" THEN <<>> ELSE last_results
    /\ last_update_time' = IF tasks[t].pc = "failed" THEN None ELSE last_update_time
    /\ tasks' = [tasks EXCEPT ![t] = FreeTask]
    /\ UNCHANGED <<nonApiVars, is_vercel, response>>

\* a run whose flag is cleared by the last statement of the try body, not in a finally
run_scraper_local_finally_after_try(t) ==
    /\ Sent
    /\ tasks[t].pc \in {"stamped", "failed"}
    /\ tasks[t].kind = "run_scraper_local"
    /\ is_scraping' = IF tasks[t].pc = "stamped" THEN FALSE ELSE is_scraping
    /\ tasks' = [tasks EXCEPT ![t] = FreeTask]
    /\ UNCHANGED <<nonApiVars, is_vercel, last_results, last_update_time, response>>

\* finally: is_scraping = False, after success or after an exception
run_scraper_local_finally(t) ==
    /\ Sent
    /\ tasks[t].pc \in {"stamped", "failed"}
    /\ tasks[t].kind = "run_scraper_local"
    /\ is_scraping' = FALSE
    /\ tasks' = [tasks EXCEPT ![t] = FreeTask]
    /\ UNCHANGED <<nonApiVars, is_vercel, last_results, last_update_time, response>>

---------------------------------------------------------------------------
(* The request-serving wrapper *)

InitApi ==
    /\ is_vercel \in BOOLEAN
    /\ is_scraping = FALSE
    /\ last_results = <<>>
    /\ last_update_time = None
    /\ tasks = [t \in TaskIds |-> FreeTask]
    /\ response = NoResponse

\* the scraper at rest
IdleFetch ==
    /\ fetch_pc = "idle"
    /\ fetch_url = ""
    /\ attempt = 0
    /\ fetch_result = None
    /\ sleeps = <<>>
    /\ attempts = <<>>

\* the request-serving wrapper at rest
IdleApi ==
    /\ is_vercel = FALSE
    /\ is_scraping = FALSE
    /\ last_results = <<>>
    /\ last_update_time = None
    /\ tasks = [t \in TaskIds |-> FreeTask]
    /\ response = NoResponse

\* the classifier at rest
IdleClassify ==
    /\ product_name = <<>>
    /\ product_type = None

\* no retailer check under way
IdlePrice ==
    /\ retail_price_thresholds = <<>>
    /\ cand = [name |-> <<>>, price |-> 0, store |-> "none"]
    /\ cand_type = None
    /\ is_retail_price = None

\* no retailer check at a product element
IdleListing ==
    /\ raw_listing = [store |-> "none", name |-> None, price_text |-> None, href |-> None,
                      availability |-> None]
    /\ listing_pc = "idle"
    /\ extracted = None

\* the lists of validate_products as the source has them (lines 123-127, 35-40, 165)
TcgKeywords == {<<"b","o","o","s","t","e","r">>, <<"p","a","c","k">>, <<"e","l","i","t","e"," ","t","r","a","i","n","e","r"," ","b","o","x">>, <<"e","t","b">>, <<"t","i","n">>, <<"c","o","l","l","e","c","t","i","o","n">>,
                <<"t","c","g"," ">>, <<"t","r","a","d","i","n","g"," ","c","a","r","d"," ","g","a","m","e">>, <<"p","o","k","e","m","o","n"," ","c","a","r","d","s">>, <<"c","a","r","d"," ","b","o","x">>, <<"d","e","c","k">>,
                <<"d","i","s","p","l","a","y"," ","b","o","x">>, <<"p","a","l","d","e","a">>, <<"s","c","a","r","l","e","t">>, <<"v","i","o","l","e","t">>, <<"p","a","r","a","d","o","x">>, <<"t","e","r","a">>}

RecentExpansions == {<<"s","c","a","r","l","e","t">>, <<"v","i","o","l","e","t">>, <<"p","a","l","d","e","a">>, <<"p","a","r","a","d","o","x"," ","r","i","f","t">>, <<"t","w","i","l","i","g","h","t"," ","m","a","s","q","u","e","r","a","d","e">>,
                     <<"t","e","m","p","o","r","a","l"," ","f","o","r","c","e","s">>, <<"p","o","c","k","e","t"," ","m","o","n","s","t","e","r","s">>, <<"o","b","s","i","d","i","a","n"," ","f","l","a","m","e","s">>, <<"p","a","l","d","e","a","n"," ","f","a","t","e","s">>,
                     <<"1","5","1">>, <<"c","r","o","w","n"," ","z","e","n","i","t","h">>, <<"s","i","l","v","e","r"," ","t","e","m","p","e","s","t">>, <<"l","o","s","t"," ","o","r","i","g","i","n">>,
                     <<"a","s","t","r","a","l"," ","r","a","d","i","a","n","c","e">>, <<"b","r","i","l","l","i","a","n","t"," ","s","t","a","r","s">>, <<"c","e","l","e","b","r","a","t","i","o","n","s">>}

DefiniteTerms == {<<"b","o","o","s","t","e","r"," ","b","o","x">>, <<"e","l","i","t","e"," ","t","r","a","i","n","e","r"," ","b","o","x">>, <<"p","o","k","e","m","o","n"," ","t","c","g">>, <<"t","r","a","d","i","n","g"," ","c","a","r","d"," ","g","a","m","e">>}

\* validate_products not called
IdleValidate ==
    /\ tcg_keywords = TcgKeywords
    /\ recent_expansions = RecentExpansions
    /\ definite_terms = DefiniteTerms
    /\ raw_results = <<>>
    /\ validated_products = None
    /\ validated_before = None

\* a tracker that is not run
IdleSites ==
    /\ pages = [s \in Stores |-> None]
    /\ email_config = <<>>
    /\ tracker_interval = 1800
    /\ sites_pc = "idle"
    /\ in_stock_items = <<>>
    /\ returned = None
    /\ fetched = <<>>
    /\ files = <<>>
    /\ snapshots = <<>>
    /\ outbox = <<>>
    /\ smtp_log = <<>>
    /\ clock = 0
    /\ run_pc = "stopped"
    /\ runs = 0
    /\ config_json = [check_interval |-> None]
    /\ run_slept = None

Init == InitApi /\ IdleFetch /\ IdleClassify /\ IdlePrice /\ IdleListing /\ IdleValidate /\ IdleSites

Next ==
    \/ get_products
    \/ get_status
    \/ send_response
    \/ \E config \in Configs, api_key \in ApiKeys : post_scrape(config, api_key)
    \/ \E t \in TaskIds : run_scraper_start(t)
    \/ \E t \in TaskIds : run_scraper_build(t)
    \/ \E t \in TaskIds : run_scraper_publish(t)
    \/ \E t \in TaskIds : run_scraper_stamp(t)
    \/ \E t \in TaskIds : run_scraper_finally(t)
    \/ \E t \in TaskIds : run_scraper_local_start(t)
    \/ \E t \in TaskIds : run_scraper_local_build(t)
    \/ \E t \in TaskIds : run_scraper_local_publish(t)
    \/ \E t \in TaskIds : run_scraper_local_stamp(t)
    \/ \E t \in TaskIds : run_scraper_local_finally(t)

Spec == Init /\ [][Next]_vars

\* the statements of the background task in slot t
RunStep(t) ==
    \/ run_scraper_start(t)
    \/ run_scraper_build(t)
    \/ run_scraper_publish(t)
    \/ run_scraper_stamp(t)
    \/ run_scraper_finally(t)
    \/ run_scraper_local_start(t)
    \/ run_scraper_local_build(t)
    \/ run_scraper_local_publish(t)
    \/ run_scraper_local_stamp(t)
    \/ run_scraper_local_finally(t)

\* every response is sent, and the event loop runs a task that is ready again and
\* again: requests that keep arriving do not starve it
SpecFair == Spec /\ WF_vars(send_response) /\ \A t \in TaskIds : SF_vars(RunStep(t))

---------------------------------------------------------------------------
(* Claims about the request-serving wrapper *)

\* the tasks that are scheduled or running
ActiveTasks == {t \in TaskIds : tasks[t].pc # "none"}

\* the complete product list of a run_scraper run with this config
CompleteSample(config) ==
    LET kept == SelectSeq(sample_products, LAMBDA r : r.store \in config.retailers)
    IN  [i \in 1..Len(kept) |->
            Product(kept[i].name, kept[i].price, kept[i].url, kept[i].store, kept[i].type, PLACEHOLDER_IMAGE)]

\* the complete product list of a run_scraper_local run with this output and config
CompleteLocal(output, config) ==
    LET kept == SelectSeq(output.records, LAMBDA r : r.store \in config.retailers)
    IN  [i \in 1..Len(kept) |->
            Product(kept[i].name, kept[i].price, kept[i].url, kept[i].store,
                    local_product_type(config.thresholds, 1, kept[i].name), PLACEHOLDER_IMAGE)]

\* the complete product list a run with this config may end with
CompleteOf(kind, config) ==
    IF kind = "run_scraper"
    THEN {CompleteSample(config)}
    ELSE {CompleteLocal(output, config) : output \in {o \in ScraperOutputs : ~local_raises(o, config)}}

\* every result set a reader may be given: the initial empty one, or a complete one
CompleteResults == {<<>>} \cup UNION {CompleteOf(kind, config) : kind \in {"run_scraper", "run_scraper_local"}, config \in Configs}

C2_AtMostOneRun == Cardinality(ActiveTasks) <= 1

\* C3, the states: the served result set, and what get_products and get_status
\* answer, is always a complete result set, never a partly built one.
C3_Complete ==
    /\ last_results \in CompleteResults
    /\ response.op = "get_products" => response.body \in CompleteResults /\ response.body = last_results
    /\ response.op = "get_status" =>
          /\ response.body.products_count = Len(last_results)
          /\ response.body.retailers = {last_results[i].store : i \in DOMAIN last_results}

\* C3, the steps: the served result set changes only in the publication of a run
\* that has built its list, and to that run's complete list; every other step of
\* a run leaves it as it was.
C3_Swap ==
    last_results' # last_results =>
        \E t \in TaskIds :
           /\ tasks[t].pc = "built"
           /\ tasks'[t].pc = "published"
           /\ last_results' \in CompleteOf(tasks[t].kind, tasks[t].config)

\* C3: reads made at any time, also during a run, observe the complete result set
\* of the previous run or of the new one, and the served set is unchanged while a
\* run has not yet published.
C3_ReadsSeeCompleteResults == []C3_Complete /\ [][C3_Swap]_vars

\* C3 witness: get_products answers the previous run's products while a new run
\* has started and not yet published
C3_Witness ==
    /\ response.op = "get_products"
    /\ response.body # <<>>
    /\ is_scraping
    /\ \E t \in TaskIds : tasks[t].pc \in {"started", "built"}

---------------------------------------------------------------------------
(* src/api/pokemon_tcg_tracker.py : fetch_page *)

max_retries == 3

\* the pages the model fetches
Urls == {"https://www.pokemoncenter.com/category/trading-card-game",
         "https://www.target.com/s?searchTerm=pokemon+trading+cards"}

\* response bodies: a product page, a bot-check page, an empty body
Bodies == {"<html>products</html>", "<html>captcha</html>", ""}

Statuses == {200, 403, 404, 429, 503}

\* what requests.get(url, headers, timeout=10) comes to: a response, or one of the
\* exceptions of requests.exceptions
Outcomes ==
    {[error |-> "", status |-> s, text |-> b] : s \in Statuses, b \in Bodies}
    \cup {[error |-> e, status |-> 0, text |-> ""] : e \in {"Timeout", "ConnectionError"}}

\* a raise_for_status that never raises
raise_for_status_never(status) == FALSE

\* response.raise_for_status(): TRUE when it raises HTTPError
raise_for_status(status) == status >= 400 /\ status < 600

\* fetch_page(url) is called
fetch_call(url) ==
    /\ fetch_pc = "idle"
    /\ fetch_pc' = "loop"
    /\ fetch_url' = url
    /\ attempt' = 0
    /\ UNCHANGED <<nonFetchVars, fetch_result, sleeps, attempts>>

\* one pass of the loop that also waits after the last attempt
fetch_attempt_always_waits ==
    /\ fetch_pc = "loop"
    /\ IF attempt >= max_retries
       THEN /\ fetch_pc' = "returned"
            /\ fetch_result' = None
            /\ UNCHANGED <<attempt, sleeps, attempts>>
       ELSE \E outcome \in Outcomes :
               /\ attempts' = Append(attempts, outcome)
               /\ IF outcome.error = "" /\ ~raise_for_status(outcome.status)
                  THEN /\ fetch_pc' = "returned"
                       /\ fetch_result' = Some(outcome.text)
                       /\ UNCHANGED <<attempt, sleeps>>
                  ELSE /\ sleeps' = Append(sleeps, 2 ^ attempt)
                       /\ attempt' = attempt + 1
                       /\ UNCHANGED <<fetch_pc, fetch_result>>
    /\ UNCHANGED <<nonFetchVars, fetch_url>>

\* one pass of `for attempt in range(max_retries)`: the request, and either the
\* return of its text or the except clause; a loop that ran out returns None
fetch_attempt ==
    /\ fetch_pc = "loop"
    /\ IF attempt >= max_retries
       THEN /\ fetch_pc' = "returned"
            /\ fetch_result' = None
            /\ UNCHANGED <<attempt, sleeps, attempts>>
       ELSE \E outcome \in Outcomes :
               /\ attempts' = Append(attempts, outcome)
               /\ IF outcome.error = "" /\ ~raise_for_status(outcome.status)
                  THEN /\ fetch_pc' = "returned"
                       /\ fetch_result' = Some(outcome.text)
                       /\ UNCHANGED <<attempt, sleeps>>
                  ELSE IF attempt < max_retries - 1
                  THEN /\ sleeps' = Append(sleeps, 2 ^ attempt)
                       /\ attempt' = attempt + 1
                       /\ UNCHANGED <<fetch_pc, fetch_result>>
                  ELSE /\ fetch_pc' = "returned"
                       /\ fetch_result' = None
                       /\ UNCHANGED <<attempt, sleeps>>
    /\ UNCHANGED <<nonFetchVars, fetch_url>>

InitFetch == IdleApi /\ IdleFetch /\ IdleClassify /\ IdlePrice /\ IdleListing /\ IdleValidate /\ IdleSites

NextFetch ==
    \/ \E url \in Urls : fetch_call(url)
    \/ fetch_attempt

SpecFetch == InitFetch /\ [][NextFetch]_vars

\* every pass of the loop ends: the request has a timeout and the sleeps are finite
SpecFetchFair == SpecFetch /\ WF_vars(fetch_attempt)

---------------------------------------------------------------------------
(* Claims about fetch_page *)

\* an attempt that failed: a transport error, a timeout or an error status
FailedAttempt(outcome) == outcome.error # "" \/ outcome.status >= 400

\* the last attempt made
LastAttempt == attempts[Len(attempts)]

\* C4, the states: at most 3 attempts are made; the call returns the text of the
\* first attempt that succeeds and makes none after it; it returns null after 3
\* failures; it waits 2^k seconds after failed attempt k = 0, 1 and not after the last.
C4_Attempts ==
    /\ Len(attempts) <= 3
    /\ \A i \in 1..(Len(attempts) - 1) : FailedAttempt(attempts[i])
    /\ fetch_pc = "loop" =>
          /\ Len(attempts) < 3
          /\ \A i \in DOMAIN attempts : FailedAttempt(attempts[i])
          /\ sleeps = [k \in 1..Len(attempts) |-> 2 ^ (k - 1)]
    /\ fetch_pc = "returned" =>
          /\ Len(attempts) >= 1
          /\ sleeps = [k \in 1..(Len(attempts) - 1) |-> 2 ^ (k - 1)]
          /\ IF FailedAttempt(LastAttempt)
             THEN Len(attempts) = 3 /\ fetch_result = None
             ELSE fetch_result = Some(LastAttempt.text)

\* C4: fetch_page makes at most 3 attempts, returns the first success or null after
\* 3 failures, waits 1 then 2 seconds between attempts, and every call returns.
C4_BoundedRetries == []C4_Attempts /\ (fetch_pc = "loop" ~> fetch_pc = "returned")

\* C4 witness: two failures, two waits, then a success that is returned
C4_Witness ==
    /\ fetch_pc = "returned"
    /\ Len(attempts) = 3
    /\ sleeps = <<1, 2>>
    /\ fetch_result = Some("<html>products</html>")

\* the bodies the spec's bot-block test would flag for a blocking-indicator term
BlockingTermBodies == {"<html>captcha</html>"}

\* the bodies below any minimum size
ShortBodies == {""}

\* a response judged to indicate bot-blocking
BotBlocked(outcome) ==
    \/ outcome.status \in {403, 429, 503}
    \/ outcome.text \in BlockingTermBodies
    \/ outcome.text \in ShortBodies

---------------------------------------------------------------------------
(* src/api/pokemon_tcg_tracker.py : determine_product_type *)

\* "Check for obvious product types": the first if/elif chain, None when it falls through
obvious_type(name_lower) ==
    IF Contains(<<"b","o","o","s","t","e","r"," ","b","o","x">>, name_lower) THEN Some(<<"b","o","o","s","t","e","r"," ","b","o","x">>)
    ELSE IF Contains(<<"e","l","i","t","e"," ","t","r","a","i","n","e","r"," ","b","o","x">>, name_lower) \/ Contains(<<" ","e","t","b">>, name_lower)
    THEN Some(<<"e","l","i","t","e"," ","t","r","a","i","n","e","r"," ","b","o","x">>)
    ELSE IF \/ Contains(<<"b","o","o","s","t","e","r"," ","p","a","c","k">>, name_lower)
            \/ /\ Contains(<<"p","a","c","k">>, name_lower) \/ Contains(<<"p","a","c","k","s">>, name_lower)
               /\ ~Contains(<<"b","o","o","s","t","e","r">>, name_lower)
    THEN Some(<<"b","o","o","s","t","e","r"," ","p","a","c","k">>)
    ELSE IF Contains(<<"t","i","n">>, name_lower) THEN Some(<<"t","i","n">>)
    ELSE IF Contains(<<"s","p","e","c","i","a","l"," ","c","o","l","l","e","c","t","i","o","n">>, name_lower) THEN Some(<<"s","p","e","c","i","a","l"," ","c","o","l","l","e","c","t","i","o","n">>)
    ELSE IF Contains(<<"p","r","e","m","i","u","m"," ","c","o","l","l","e","c","t","i","o","n">>, name_lower) THEN Some(<<"p","r","e","m","i","u","m"," ","c","o","l","l","e","c","t","i","o","n">>)
    ELSE IF Contains(<<"b","l","i","s","t","e","r"," ","p","a","c","k">>, name_lower) \/ Contains(<<"b","l","i","s","t","e","r">>, name_lower)
    THEN Some(<<"b","l","i","s","t","e","r"," ","p","a","c","k">>)
    ELSE IF Contains(<<"b","u","n","d","l","e">>, name_lower) THEN Some(<<"b","u","n","d","l","e">>)
    ELSE None

\* a chain that tests "collection" before "collection" with "premium"
generic_type_collection_first(name_lower) ==
    IF Contains(<<"b","o","x">>, name_lower) /\ (Contains(<<"b","o","o","s","t","e","r">>, name_lower) \/ Contains(<<"b","o","o","s","t","e","r","s">>, name_lower))
    THEN Some(<<"b","o","o","s","t","e","r"," ","b","o","x">>)
    ELSE IF Contains(<<"b","o","x">>, name_lower) /\ (Contains(<<"e","l","i","t","e">>, name_lower) \/ Contains(<<"t","r","a","i","n","e","r">>, name_lower))
    THEN Some(<<"e","l","i","t","e"," ","t","r","a","i","n","e","r"," ","b","o","x">>)
    ELSE IF Contains(<<"c","o","l","l","e","c","t","i","o","n">>, name_lower) THEN Some(<<"s","p","e","c","i","a","l"," ","c","o","l","l","e","c","t","i","o","n">>)
    ELSE IF Contains(<<"c","o","l","l","e","c","t","i","o","n">>, name_lower) /\ Contains(<<"p","r","e","m","i","u","m">>, name_lower)
    THEN Some(<<"p","r","e","m","i","u","m"," ","c","o","l","l","e","c","t","i","o","n">>)
    ELSE None

\* "Check for more generic terms": the second if/elif chain, None when it falls through
generic_type(name_lower) ==
    IF Contains(<<"b","o","x">>, name_lower) /\ (Contains(<<"b","o","o","s","t","e","r">>, name_lower) \/ Contains(<<"b","o","o","s","t","e","r","s">>, name_lower))
    THEN Some(<<"b","o","o","s","t","e","r"," ","b","o","x">>)
    ELSE IF Contains(<<"b","o","x">>, name_lower) /\ (Contains(<<"e","l","i","t","e">>, name_lower) \/ Contains(<<"t","r","a","i","n","e","r">>, name_lower))
    THEN Some(<<"e","l","i","t","e"," ","t","r","a","i","n","e","r"," ","b","o","x">>)
    ELSE IF Contains(<<"c","o","l","l","e","c","t","i","o","n">>, name_lower) /\ Contains(<<"p","r","e","m","i","u","m">>, name_lower)
    THEN Some(<<"p","r","e","m","i","u","m"," ","c","o","l","l","e","c","t","i","o","n">>)
    ELSE IF Contains(<<"c","o","l","l","e","c","t","i","o","n">>, name_lower) THEN Some(<<"s","p","e","c","i","a","l"," ","c","o","l","l","e","c","t","i","o","n">>)
    ELSE None

\* "If it has cards or tcg but we couldn't determine the type", None when it has not
cards_type(name_lower) ==
    IF \E term \in {<<"t","r","a","d","i","n","g"," ","c","a","r","d">>, <<"t","c","g">>, <<"c","a","r","d","s">>} : Contains(term, name_lower)
    THEN IF Contains(<<"p","a","c","k">>, name_lower) THEN Some(<<"b","o","o","s","t","e","r"," ","p","a","c","k">>) ELSE Some(<<"s","p","e","c","i","a","l"," ","c","o","l","l","e","c","t","i","o","n">>)
    ELSE None

\* the three blocks in order, "unknown" when none returns
type_of_lowered(name_lower) ==
    IF obvious_type(name_lower) # None THEN obvious_type(name_lower)[1]
    ELSE IF generic_type(name_lower) # None THEN generic_type(name_lower)[1]
    ELSE IF cards_type(name_lower) # None THEN cards_type(name_lower)[1]
    ELSE <<"u","n","k","n","o","w","n">>

\* a classifier that tests the name as written
determine_product_type_as_written(name) == type_of_lowered(name)

determine_product_type(name) == type_of_lowered(lower(name))

\* words of product names
Words == {<<"B","o","o","s","t","e","r">>, <<"B","o","x">>, <<"E","l","i","t","e">>, <<"T","r","a","i","n","e","r">>, <<"E","T","B">>, <<"P","a","c","k">>, <<"T","i","n">>, <<"S","p","e","c","i","a","l">>,
          <<"P","r","e","m","i","u","m">>, <<"C","o","l","l","e","c","t","i","o","n">>, <<"B","l","i","s","t","e","r">>, <<"B","u","n","d","l","e">>, <<"B","a","t","t","l","e">>, <<"D","e","c","k">>, <<"T","C","G">>,
          <<"P","l","u","s","h">>, <<"T","i","n","k","a","t","o","n">>}

RECURSIVE JoinWords(_)
\* the words with one space between them
JoinWords(ws) ==
    IF Len(ws) = 0 THEN <<>>
    ELSE IF Len(ws) = 1 THEN ws[1]
    ELSE ws[1] \o <<" ">> \o JoinWords(Tail(ws))

\* the names the spec documents with their labels
DocumentedNames == {<<"S","c","a","r","l","e","t"," ","&"," ","V","i","o","l","e","t"," ","B","o","o","s","t","e","r"," ","B","o","x">>, <<"E","l","i","t","e"," ","T","r","a","i","n","e","r"," ","B","o","x"," ","E","T","B">>,
                    <<"3","-","P","a","c","k"," ","B","l","i","s","t","e","r">>, <<"R","a","n","d","o","m"," ","P","l","u","s","h"," ","T","o","y">>}

\* the names the model classifies: the generated ones, the documented ones and
\* those of index.py's sample_products
Names ==
    {JoinWords(ws) : ws \in UNION {[1..k -> Words] : k \in 1..MaxWords}}
    \cup DocumentedNames
    \cup {sample_products[i].name : i \in DOMAIN sample_products}

\* determine_product_type(product_name) is called and returns
classify ==
    /\ product_type = None
    /\ product_type' = Some(determine_product_type(product_name))
    /\ UNCHANGED <<nonClassifyVars, product_name>>

InitClassify ==
    /\ IdleApi
    /\ IdleFetch
    /\ IdleSites
    /\ IdleValidate
    /\ IdlePrice
    /\ IdleListing
    /\ product_name \in Names
    /\ product_type = None

NextClassify == classify

SpecClassify == InitClassify /\ [][NextClassify]_vars

---------------------------------------------------------------------------
(* Claims about determine_product_type *)

\* the closed set of ten labels
Labels == {<<"b","o","o","s","t","e","r"," ","b","o","x">>, <<"e","l","i","t","e"," ","t","r","a","i","n","e","r"," ","b","o","x">>, <<"b","o","o","s","t","e","r"," ","p","a","c","k">>, <<"t","i","n">>, <<"s","p","e","c","i","a","l"," ","c","o","l","l","e","c","t","i","o","n">>,
           <<"p","r","e","m","i","u","m"," ","c","o","l","l","e","c","t","i","o","n">>, <<"b","l","i","s","t","e","r"," ","p","a","c","k">>, <<"b","u","n","d","l","e">>, <<"d","e","c","k">>, <<"u","n","k","n","o","w","n">>}

Letters == {LowerCase[i] : i \in DOMAIN LowerCase} \cup {UpperCase[i] : i \in DOMAIN UpperCase}

Digits == {"0", "1", "2", "3", "4", "5", "6", "7", "8", "9"}

\* tok stands in n as a token of its own: no letter or digit touches it
StandaloneToken(tok, n) ==
    \E i \in 0..(Len(n) - Len(tok)) :
       /\ \A j \in 1..Len(tok) : n[i + j] = tok[j]
       /\ i = 0 \/ n[i] \notin Letters \cup Digits
       /\ i + Len(tok) = Len(n) \/ n[i + Len(tok) + 1] \notin Letters \cup Digits

\* rule k of the spec's precedence list on the lower-cased name n: the label it
\* gives, None when it does not match
SpecRule(k, n) ==
    CASE k = 1 -> IF Contains(<<"b","o","o","s","t","e","r"," ","b","o","x">>, n) THEN Some(<<"b","o","o","s","t","e","r"," ","b","o","x">>) ELSE None
      [] k = 2 -> IF Contains(<<"e","l","i","t","e"," ","t","r","a","i","n","e","r"," ","b","o","x">>, n) \/ StandaloneToken(<<"e","t","b">>, n)
                  THEN Some(<<"e","l","i","t","e"," ","t","r","a","i","n","e","r"," ","b","o","x">>) ELSE None
      [] k = 3 -> IF Contains(<<"b","o","o","s","t","e","r"," ","p","a","c","k">>, n)
                     \/ ((Contains(<<"p","a","c","k">>, n) \/ Contains(<<"p","a","c","k","s">>, n)) /\ ~Contains(<<"b","o","o","s","t","e","r">>, n))
                  THEN Some(<<"b","o","o","s","t","e","r"," ","p","a","c","k">>) ELSE None
      [] k = 4 -> IF Contains(<<"t","i","n">>, n) THEN Some(<<"t","i","n">>) ELSE None
      [] k = 5 -> IF Contains(<<"s","p","e","c","i","a","l"," ","c","o","l","l","e","c","t","i","o","n">>, n) THEN Some(<<"s","p","e","c","i","a","l"," ","c","o","l","l","e","c","t","i","o","n">>) ELSE None
      [] k = 6 -> IF Contains(<<"p","r","e","m","i","u","m"," ","c","o","l","l","e","c","t","i","o","n">>, n) THEN Some(<<"p","r","e","m","i","u","m"," ","c","o","l","l","e","c","t","i","o","n">>) ELSE None
      [] k = 7 -> IF Contains(<<"b","l","i","s","t","e","r"," ","p","a","c","k">>, n) \/ Contains(<<"b","l","i","s","t","e","r">>, n)
                  THEN Some(<<"b","l","i","s","t","e","r"," ","p","a","c","k">>) ELSE None
      [] k = 8 -> IF Contains(<<"b","u","n","d","l","e">>, n) THEN Some(<<"b","u","n","d","l","e">>) ELSE None
      [] k = 9 -> IF Contains(<<"b","a","t","t","l","e"," ","d","e","c","k">>, n) \/ Contains(<<"t","h","e","m","e"," ","d","e","c","k">>, n)
                  THEN Some(<<"d","e","c","k">>) ELSE None
      [] k = 10 -> IF Contains(<<"b","o","x">>, n) /\ (Contains(<<"b","o","o","s","t","e","r">>, n) \/ Contains(<<"b","o","o","s","t","e","r","s">>, n))
                   THEN Some(<<"b","o","o","s","t","e","r"," ","b","o","x">>)
                   ELSE IF Contains(<<"b","o","x">>, n) /\ (Contains(<<"e","l","i","t","e">>, n) \/ Contains(<<"t","r","a","i","n","e","r">>, n))
                   THEN Some(<<"e","l","i","t","e"," ","t","r","a","i","n","e","r"," ","b","o","x">>)
                   ELSE IF Contains(<<"c","o","l","l","e","c","t","i","o","n">>, n) /\ Contains(<<"p","r","e","m","i","u","m">>, n)
                   THEN Some(<<"p","r","e","m","i","u","m"," ","c","o","l","l","e","c","t","i","o","n">>)
                   ELSE IF Contains(<<"c","o","l","l","e","c","t","i","o","n">>, n) THEN Some(<<"s","p","e","c","i","a","l"," ","c","o","l","l","e","c","t","i","o","n">>)
                   ELSE None
      [] k = 11 -> IF Contains(<<"t","r","a","d","i","n","g"," ","c","a","r","d">>, n) \/ Contains(<<"t","c","g">>, n) \/ Contains(<<"c","a","r","d","s">>, n)
                   THEN IF Contains(<<"p","a","c","k">>, n) THEN Some(<<"b","o","o","s","t","e","r"," ","p","a","c","k">>) ELSE Some(<<"s","p","e","c","i","a","l"," ","c","o","l","l","e","c","t","i","o","n">>)
                   ELSE None
      [] OTHER -> Some(<<"u","n","k","n","o","w","n">>)

\* the list as the code has it: no rule 9, and rule 2 looks for " etb", the
\* letters after a space
CodeRule(k, n) ==
    CASE k = 2 -> IF Contains(<<"e","l","i","t","e"," ","t","r","a","i","n","e","r"," ","b","o","x">>, n) \/ Contains(<<" ","e","t","b">>, n)
                  THEN Some(<<"e","l","i","t","e"," ","t","r","a","i","n","e","r"," ","b","o","x">>) ELSE None
      [] k = 9 -> None
      [] OTHER -> SpecRule(k, n)

\* the label of the lowest-numbered rule of the spec's list that matches
FirstSpecRule(n) == SpecRule(CHOOSE k \in 1..12 : SpecRule(k, n) # None /\ \A m \in 1..(k - 1) : SpecRule(m, n) = None, n)[1]

\* the label of the lowest-numbered rule of the code's list that matches
FirstCodeRule(n) == CodeRule(CHOOSE k \in 1..12 : CodeRule(k, n) # None /\ \A m \in 1..(k - 1) : CodeRule(m, n) = None, n)[1]

\* C6: classification is total and deterministic: every name gets one of the ten
\* labels, unknown exactly when no rule matches, and the label does not depend on
\* the case of the name's letters.
C6_TotalClassification ==
    product_type # None =>
        /\ product_type[1] \in Labels
        /\ product_type[1] = <<"u","n","k","n","o","w","n">> <=> \A k \in 1..11 : CodeRule(k, lower(product_name)) = None
        /\ product_type[1] = determine_product_type(upper(product_name))
        /\ product_type[1] = determine_product_type(lower(product_name))

\* C6 witness: a name written with capitals that no rule matches is labelled unknown
C6_Witness ==
    /\ product_name = <<"B","a","t","t","l","e"," ","D","e","c","k">>
    /\ product_type = Some(<<"u","n","k","n","o","w","n">>)

\* C7 as stated: the label is that of the lowest-numbered matching rule of the
\* spec's 12-rule list.
C7_SpecPrecedence ==
    product_type # None => product_type[1] = FirstSpecRule(lower(product_name))

\* C7 amended: the label is that of the lowest-numbered matching rule of the list
\* without rule 9 (no name is labelled deck) and with rule 2 reading "elite trainer
\* box" or " etb" (etb after a space); no later rule overrides an earlier one.
C7_CodePrecedence ==
    product_type # None =>
        /\ product_type[1] = FirstCodeRule(lower(product_name))
        /\ product_type[1] # <<"d","e","c","k">>

\* C7 witness: rule 3 and rule 4 both match and rule 3 gives the label
C7_Witness ==
    /\ product_type = Some(<<"b","o","o","s","t","e","r"," ","p","a","c","k">>)
    /\ CodeRule(3, lower(product_name)) # None
    /\ CodeRule(4, lower(product_name)) # None

\* C8: each documented example gets its documented label.
C8_DocumentedExamples ==
    product_type # None =>
        /\ product_name = <<"S","c","a","r","l","e","t"," ","&"," ","V","i","o","l","e","t"," ","B","o","o","s","t","e","r"," ","B","o","x">> => product_type[1] = <<"b","o","o","s","t","e","r"," ","b","o","x">>
        /\ product_name = <<"E","l","i","t","e"," ","T","r","a","i","n","e","r"," ","B","o","x"," ","E","T","B">> => product_type[1] = <<"e","l","i","t","e"," ","t","r","a","i","n","e","r"," ","b","o","x">>
        /\ product_name = <<"3","-","P","a","c","k"," ","B","l","i","s","t","e","r">> => product_type[1] = <<"b","l","i","s","t","e","r"," ","p","a","c","k">>
        /\ product_name = <<"R","a","n","d","o","m"," ","P","l","u","s","h"," ","T","o","y">> => product_type[1] = <<"u","n","k","n","o","w","n">>

---------------------------------------------------------------------------
(* src/api/pokemon_tcg_tracker.py : "Check if price is at retail level" in *)
(* check_pokemoncenter, check_target, check_walmart, check_bestbuy and     *)
(* check_gamestop                                                          *)

RECURSIVE price_loop_strict(_, _, _, _)
\* a loop that wants the price below the threshold
price_loop_strict(thresholds, i, type, price) ==
    IF i > Len(thresholds) THEN FALSE
    ELSE IF Contains(lower(thresholds[i].key), lower(type)) /\ price < thresholds[i].ceiling THEN TRUE
    ELSE price_loop_strict(thresholds, i + 1, type, price)

\* a loop that stops at the first key found in the type
RECURSIVE price_loop_first_key(_, _, _, _)
price_loop_first_key(thresholds, i, type, price) ==
    IF i > Len(thresholds) THEN FALSE
    ELSE IF Contains(lower(thresholds[i].key), lower(type)) THEN price <= thresholds[i].ceiling
    ELSE price_loop_first_key(thresholds, i + 1, type, price)

RECURSIVE price_loop(_, _, _, _)
\* the for loop over retail_price_thresholds.items() from its i-th item on: TRUE when
\* it breaks, FALSE when it runs out
price_loop(thresholds, i, type, price) ==
    IF i > Len(thresholds) THEN FALSE
    ELSE IF Contains(lower(thresholds[i].key), lower(type)) /\ price <= thresholds[i].ceiling THEN TRUE
    ELSE price_loop(thresholds, i + 1, type, price)

\* texts of threshold keys
Keys == {<<"B","o","o","s","t","e","r">>, <<"b","o","x">>, <<"p","a","c","k">>, <<"T","i","n">>}

\* thresholds and prices, in cents
Ceilings == {500, 2000}

Prices == {500, 501, 2000, 2001}

\* the mappings a config file gives: their keys are distinct
ThresholdTables ==
    {t \in UNION {[1..k -> [key : Keys, ceiling : Ceilings]] : k \in 0..MaxKeys} :
        \A i, j \in DOMAIN t : t[i].key = t[j].key => i = j}

\* names of listings that got past the checks' keyword test
ListingNames == {<<"P","a","l","d","e","a"," ","B","o","o","s","t","e","r"," ","B","o","x">>, <<"S","c","a","r","l","e","t"," ","3","-","P","a","c","k"," ","B","l","i","s","t","e","r">>, <<"V","i","o","l","e","t"," ","T","i","n">>,
                 <<"P","a","l","d","e","a"," ","E","l","i","t","e"," ","T","r","a","i","n","e","r"," ","B","o","x">>, <<"P","i","k","a","c","h","u"," ","B","a","t","t","l","e"," ","D","e","c","k">>}

\* product_type and is_retail_price of the listing, as every retailer check sets them
retail_price_check ==
    /\ cand_type = None
    /\ cand_type' = Some(determine_product_type(cand.name))
    /\ is_retail_price' = Some(price_loop(retail_price_thresholds, 1,
                                          determine_product_type(cand.name), cand.price))
    /\ UNCHANGED <<nonPriceVars, retail_price_thresholds, cand>>

check_pokemoncenter ==
    /\ cand.store = "Pokemon Center"
    /\ retail_price_check

check_target ==
    /\ cand.store = "Target"
    /\ retail_price_check

check_walmart ==
    /\ cand.store = "Walmart"
    /\ retail_price_check

check_bestbuy ==
    /\ cand.store = "Best Buy"
    /\ retail_price_check

check_gamestop ==
    /\ cand.store = "GameStop"
    /\ retail_price_check

InitPrice ==
    /\ IdleApi
    /\ IdleFetch
    /\ IdleSites
    /\ IdleValidate
    /\ IdleClassify
    /\ IdleListing
    /\ retail_price_thresholds \in ThresholdTables
    /\ cand \in [name : ListingNames, price : Prices, store : Stores]
    /\ cand_type = None
    /\ is_retail_price = None

NextPrice ==
    \/ check_pokemoncenter
    \/ check_target
    \/ check_walmart
    \/ check_bestbuy
    \/ check_gamestop

SpecPrice == InitPrice /\ [][NextPrice]_vars

---------------------------------------------------------------------------
(* Claims about the price check *)

\* the places of the table whose key is, letter case aside, inside the listing's label
MatchingKeys ==
    {i \in DOMAIN retail_price_thresholds :
        Contains(lower(retail_price_thresholds[i].key), lower(cand_type[1]))}

\* C9: at each of the five retailers a listing passes the price check if and only
\* if some threshold key is a case-insensitive substring of its category label
\* and that key's ceiling is at least the listing's price.
C9_ExistentialAcceptance ==
    is_retail_price # None =>
        /\ cand.store \in Stores
        /\ cand_type = Some(determine_product_type(cand.name))
        /\ is_retail_price[1] <=>
               \E i \in DOMAIN retail_price_thresholds :
                  /\ Contains(lower(retail_price_thresholds[i].key), lower(cand_type[1]))
                  /\ retail_price_thresholds[i].ceiling >= cand.price

\* C9 witness: a listing passes at its ceiling on a key written with a capital
C9_Witness ==
    /\ is_retail_price = Some(TRUE)
    /\ \E i \in MatchingKeys :
          /\ retail_price_thresholds[i].key # lower(retail_price_thresholds[i].key)
          /\ retail_price_thresholds[i].ceiling = cand.price
    /\ \A i \in MatchingKeys : retail_price_thresholds[i].ceiling <= cand.price

\* C10 as stated: when keys match, the listing passes exactly when its price is
\* at or below the ceiling of the first matching key.
C10_FirstMatchAuthoritative ==
    (is_retail_price # None /\ MatchingKeys # {}) =>
        LET first == CHOOSE i \in MatchingKeys : \A j \in MatchingKeys : i <= j
        IN is_retail_price[1] <=> cand.price <= retail_price_thresholds[first].ceiling

\* C10 amended: when several keys match, the largest of their ceilings decides: the
\* listing passes exactly when its price is at or below it, wherever in the mapping
\* that key stands; a first matching key with a lower ceiling does not reject.
C10_LargestMatchingCeiling ==
    (is_retail_price # None /\ Cardinality(MatchingKeys) >= 2) =>
        LET largest == CHOOSE i \in MatchingKeys :
                          \A j \in MatchingKeys :
                             retail_price_thresholds[j].ceiling <= retail_price_thresholds[i].ceiling
        IN is_retail_price[1] <=> cand.price <= retail_price_thresholds[largest].ceiling

\* C10 witness: two keys match, the price is above the first one's ceiling and the
\* listing passes on the second
C10_Witness ==
    /\ is_retail_price = Some(TRUE)
    /\ Cardinality(MatchingKeys) >= 2
    /\ \E i, j \in MatchingKeys :
          /\ i < j
          /\ \A k \in MatchingKeys : i <= k
          /\ cand.price > retail_price_thresholds[i].ceiling
          /\ cand.price <= retail_price_thresholds[j].ceiling

---------------------------------------------------------------------------
(* src/api/pokemon_tcg_tracker.py : the loop over product elements of      *)
(* check_pokemoncenter, check_target, check_walmart, check_bestbuy and     *)
(* check_gamestop. A product element is the record of what the selectors   *)
(* find in it: name, price_text and availability are the texts of          *)
(* name_elem, price_elem and availability_elem, href is url_elem['href'],  *)
(* each None when the element (or the attribute) is not there.             *)

Whitespace == {" ", "\t", "\n"}

RECURSIVE lstrip(_)
lstrip(s) == IF s # <<>> /\ Head(s) \in Whitespace THEN lstrip(Tail(s)) ELSE s

RECURSIVE rstrip(_)
rstrip(s) == IF s # <<>> /\ s[Len(s)] \in Whitespace THEN rstrip(SubSeq(s, 1, Len(s) - 1)) ELSE s

\* str.strip()
strip(s) == rstrip(lstrip(s))

\* str.startswith
startswith(s, prefix) == Len(prefix) <= Len(s) /\ SubSeq(s, 1, Len(prefix)) = prefix

\* the regular expression's \d (for the ASCII digits the price texts have)
IsDigit(c) == c \in {"0", "1", "2", "3", "4", "5", "6", "7", "8", "9"}

\* where the run of digits that holds place i ends
RunEnd(s, i) ==
    CHOOSE j \in i..Len(s) :
        /\ \A k \in i..j : IsDigit(s[k])
        /\ j = Len(s) \/ ~IsDigit(s[j + 1])

\* the search on the text without its commas
re_search_through_commas(text) ==
    LET plain == SelectSeq(text, LAMBDA c : c # ",")
        starts == {i \in 1..Len(plain) :
                      /\ IsDigit(plain[i])
                      /\ RunEnd(plain, i) + 2 <= Len(plain)
                      /\ plain[RunEnd(plain, i) + 1] = "."
                      /\ IsDigit(plain[RunEnd(plain, i) + 2])}
    IN IF starts = {} THEN None
       ELSE LET i == CHOOSE m \in starts : \A n \in starts : m <= n
                e == RunEnd(plain, i)
            IN Some(SubSeq(plain, i, RunEnd(plain, e + 2)))

\* re.search(r'(\d+\.\d+)', text): group(1) of the leftmost match, None when there is
\* none. A match starts at a digit whose run of digits is followed by a dot and a
\* digit, and takes every digit after the dot.
re_search(text) ==
    LET starts == {i \in 1..Len(text) :
                      /\ IsDigit(text[i])
                      /\ RunEnd(text, i) + 2 <= Len(text)
                      /\ text[RunEnd(text, i) + 1] = "."
                      /\ IsDigit(text[RunEnd(text, i) + 2])}
    IN IF starts = {} THEN None
       ELSE LET i == CHOOSE m \in starts : \A n \in starts : m <= n
                e == RunEnd(text, i)
            IN Some(SubSeq(text, i, RunEnd(text, e + 2)))

DigitValue(c) == CHOOSE d \in 0..9 : <<"0", "1", "2", "3", "4", "5", "6", "7", "8", "9">>[d + 1] = c

RECURSIVE DigitsValue(_)
\* the number a run of digits writes
DigitsValue(ds) ==
    IF ds = <<>> THEN 0 ELSE 10 * DigitsValue(SubSeq(ds, 1, Len(ds) - 1)) + DigitValue(ds[Len(ds)])

\* float() of a digits-dot-digits text, in cents; the price texts of the model have
\* one or two digits after the dot
float(number) ==
    LET dot == CHOOSE i \in 1..Len(number) : number[i] = "."
        whole == SubSeq(number, 1, dot - 1)
        cents == SubSeq(number, dot + 1, Len(number))
    IN 100 * DigitsValue(whole) + (IF Len(cents) = 1 THEN 10 * DigitsValue(cents) ELSE DigitsValue(cents))

\* the keyword tests, the price, the url, the type and the price check that the five
\* loops have in common: the dict the loop appends, None when it appends nothing
listing_product(l, store, origin, keywords, excluded, in_stock_status, thresholds) ==
    IF l.name = None \/ l.price_text = None \/ l.href = None THEN None
    ELSE LET name == strip(l.name[1])
             price_match == re_search(strip(l.price_text[1]))
         IN IF ~\E keyword \in keywords : Contains(keyword, lower(name)) THEN None
            ELSE IF \E term \in excluded : Contains(term, lower(name)) THEN None
            ELSE IF price_match = None THEN None
            ELSE LET price == float(price_match[1])
                     product_url == IF startswith(l.href[1], <<"h","t","t","p">>) THEN l.href[1]
                                    ELSE origin \o l.href[1]
                     type == determine_product_type(name)
                 IN IF in_stock_status /\ price_loop(thresholds, 1, type, price)
                    THEN Some([name |-> name, price |-> price, url |-> product_url,
                               store |-> store, type |-> type])
                    ELSE None

\* the exclude_terms of check_target, check_walmart, check_bestbuy and check_gamestop
exclude_terms_search == {<<"p","l","u","s","h">>, <<"f","i","g","u","r","e">>, <<"t","o","y">>, <<"c","o","s","t","u","m","e">>, <<"s","h","i","r","t">>, <<"g","a","m","e">>, <<"v","i","d","e","o"," ","g","a","m","e">>,
                         <<"s","w","i","t","c","h">>, <<"p","l","a","y","m","a","t">>, <<"b","i","n","d","e","r">>, <<"s","l","e","e","v","e","s">>, <<"c","a","s","e">>, <<"s","t","o","r","a","g","e">>}

pokemoncenter_in_stock(availability) ==
    /\ availability # None
    /\ \/ Contains(<<"i","n"," ","s","t","o","c","k">>, lower(availability[1]))
       \/ Contains(<<"a","d","d"," ","t","o"," ","c","a","r","t">>, lower(availability[1]))

bestbuy_in_stock(availability) ==
    availability # None /\ ~Contains(<<"s","o","l","d"," ","o","u","t">>, lower(availability[1]))

gamestop_in_stock(availability) ==
    availability # None /\ Contains(<<"i","n"," ","s","t","o","c","k">>, lower(availability[1]))

pokemoncenter_product(l, thresholds) ==
    LET p == listing_product(l, "Pokemon Center", <<"h","t","t","p","s",":","/","/","w","w","w",".","p","o","k","e","m","o","n","c","e","n","t","e","r",".","c","o","m">>,
                             {<<"b","o","o","s","t","e","r">>, <<"p","a","c","k">>, <<"b","o","x">>, <<"e","t","b">>, <<"e","l","i","t","e"," ","t","r","a","i","n","e","r">>, <<"t","i","n">>,
                              <<"c","o","l","l","e","c","t","i","o","n">>, <<"d","e","c","k">>, <<"t","c","g">>, <<"c","a","r","d">>, <<"p","o","k","e","m","o","n"," ","c","a","r","d","s">>,
                              <<"t","r","a","d","i","n","g"," ","c","a","r","d">>},
                             {}, pokemoncenter_in_stock(l.availability), thresholds)
    IN IF p = None THEN None
       \* "Double-check URL contains TCG-related terms"
       ELSE IF ~\E term \in {<<"t","r","a","d","i","n","g","-","c","a","r","d">>, <<"t","c","g">>, <<"b","o","o","s","t","e","r">>, <<"c","a","r","d","s">>} :
                  Contains(term, lower(p[1].url))
       THEN None
       ELSE p

target_product(l, thresholds) ==
    listing_product(l, "Target", <<"h","t","t","p","s",":","/","/","w","w","w",".","t","a","r","g","e","t",".","c","o","m">>,
                    {<<"b","o","o","s","t","e","r">>, <<"p","a","c","k">>, <<"b","o","x">>, <<"e","t","b">>, <<"e","l","i","t","e"," ","t","r","a","i","n","e","r">>, <<"t","i","n">>, <<"c","o","l","l","e","c","t","i","o","n">>,
                     <<"d","e","c","k">>, <<"t","c","g">>, <<"t","r","a","d","i","n","g"," ","c","a","r","d"," ","g","a","m","e">>, <<"p","o","k","e","m","o","n"," ","c","a","r","d","s">>},
                    exclude_terms_search, TRUE, thresholds)

walmart_product(l, thresholds) ==
    listing_product(l, "Walmart", <<"h","t","t","p","s",":","/","/","w","w","w",".","w","a","l","m","a","r","t",".","c","o","m">>,
                    {<<"b","o","o","s","t","e","r">>, <<"p","a","c","k">>, <<"b","o","x">>, <<"e","t","b">>, <<"e","l","i","t","e"," ","t","r","a","i","n","e","r">>, <<"t","i","n">>, <<"c","o","l","l","e","c","t","i","o","n">>,
                     <<"d","e","c","k">>, <<"t","c","g">>, <<"t","r","a","d","i","n","g"," ","c","a","r","d"," ","g","a","m","e">>, <<"p","o","k","e","m","o","n"," ","c","a","r","d","s">>},
                    exclude_terms_search, TRUE, thresholds)

bestbuy_product(l, thresholds) ==
    listing_product(l, "Best Buy", <<"h","t","t","p","s",":","/","/","w","w","w",".","b","e","s","t","b","u","y",".","c","o","m">>,
                    {<<"b","o","o","s","t","e","r">>, <<"p","a","c","k">>, <<"b","o","x">>, <<"e","t","b">>, <<"e","l","i","t","e"," ","t","r","a","i","n","e","r">>, <<"t","i","n">>, <<"c","o","l","l","e","c","t","i","o","n">>,
                     <<"d","e","c","k">>, <<"t","c","g">>, <<"t","r","a","d","i","n","g"," ","c","a","r","d">>, <<"p","o","k","e","m","o","n"," ","c","a","r","d","s">>},
                    exclude_terms_search, bestbuy_in_stock(l.availability), thresholds)

gamestop_product(l, thresholds) ==
    listing_product(l, "GameStop", <<"h","t","t","p","s",":","/","/","w","w","w",".","g","a","m","e","s","t","o","p",".","c","o","m">>,
                    {<<"b","o","o","s","t","e","r">>, <<"p","a","c","k">>, <<"b","o","x">>, <<"e","t","b">>, <<"e","l","i","t","e"," ","t","r","a","i","n","e","r">>, <<"t","i","n">>, <<"c","o","l","l","e","c","t","i","o","n">>,
                     <<"d","e","c","k">>, <<"t","c","g">>, <<"t","r","a","d","i","n","g"," ","c","a","r","d">>, <<"p","o","k","e","m","o","n"," ","c","a","r","d","s">>},
                    exclude_terms_search, gamestop_in_stock(l.availability), thresholds)

\* the product element through the loop body of its retailer's check
store_product(l, thresholds) ==
    CASE l.store = "Pokemon Center" -> pokemoncenter_product(l, thresholds)
      [] l.store = "Target" -> target_product(l, thresholds)
      [] l.store = "Walmart" -> walmart_product(l, thresholds)
      [] l.store = "Best Buy" -> bestbuy_product(l, thresholds)
      [] l.store = "GameStop" -> gamestop_product(l, thresholds)

\* names, price texts, links and stock texts of product elements
ElementNames == {<<"P","a","l","d","e","a"," ","B","o","o","s","t","e","r"," ","B","o","x">>, <<" "," ","P","o","k","e","m","o","n"," ","T","C","G"," ","S","c","a","r","l","e","t"," ","T","i","n"," ">>}

PriceTexts == {<<"$","1","4","3",".","9","9">>, <<"1",",","9","9","9",".","0","0">>, <<"$","2","0">>, <<"C","a","l","l"," ","f","o","r"," ","p","r","i","c","e">>, <<" ","$","1","9",".","9"," ","e","a","c","h">>}

Hrefs == {<<"/","p","r","o","d","u","c","t","/","t","c","g","-","6","9","9">>, <<"h","t","t","p","s",":","/","/","w","w","w",".","e","x","a","m","p","l","e",".","c","o","m","/","p","/","c","a","r","d","s","-","1">>, <<"/","p","/","A","-","1">>}

StockTexts == {<<"I","n"," ","S","t","o","c","k">>, <<"N","o","t"," ","i","n"," ","s","t","o","c","k">>, <<"O","u","t"," ","o","f"," ","S","t","o","c","k">>, <<"S","o","l","d"," ","O","u","t">>, <<"A","d","d"," ","t","o"," ","C","a","r","t">>,
               <<"C","o","m","i","n","g"," ","S","o","o","n">>}

\* the threshold tables of the runs over single elements
ElementThresholds == {<<[key |-> <<"b","o","o","s","t","e","r"," ","b","o","x">>, ceiling |-> 15000], [key |-> <<"t","i","n">>, ceiling |-> 2500]>>,
                      <<[key |-> <<"b","o","x">>, ceiling |-> 200000]>>}

Elements ==
    [store : Stores,
     name : {None} \cup {Some(n) : n \in ElementNames},
     price_text : {None} \cup {Some(t) : t \in PriceTexts},
     href : {None} \cup {Some(h) : h \in Hrefs},
     availability : {None} \cup {Some(t) : t \in StockTexts}]

\* one pass of the loop body: the element is dropped or its dict is appended
element_pass ==
    /\ listing_pc = "at"
    /\ listing_pc' = "done"
    /\ extracted' = store_product(raw_listing, retail_price_thresholds)
    /\ UNCHANGED <<nonListingVars, retail_price_thresholds, raw_listing>>

pokemoncenter_element ==
    /\ raw_listing.store = "Pokemon Center"
    /\ element_pass

target_element ==
    /\ raw_listing.store = "Target"
    /\ element_pass

walmart_element ==
    /\ raw_listing.store = "Walmart"
    /\ element_pass

bestbuy_element ==
    /\ raw_listing.store = "Best Buy"
    /\ element_pass

gamestop_element ==
    /\ raw_listing.store = "GameStop"
    /\ element_pass

InitListing ==
    /\ IdleApi
    /\ IdleFetch
    /\ IdleSites
    /\ IdleValidate
    /\ IdleClassify
    /\ cand = [name |-> <<>>, price |-> 0, store |-> "none"]
    /\ cand_type = None
    /\ is_retail_price = None
    /\ retail_price_thresholds \in ElementThresholds
    /\ raw_listing \in Elements
    /\ listing_pc = "at"
    /\ extracted = None

NextListing ==
    \/ pokemoncenter_element
    \/ target_element
    \/ walmart_element
    \/ bestbuy_element
    \/ gamestop_element

SpecListing == InitListing /\ [][NextListing]_vars

---------------------------------------------------------------------------
(* Claims about price parsing and the stock test *)

\* C11: the price of an emitted listing is the first decimal number of its price
\* text read without thousands separators ("$143.99" is 143.99, "1,999.00" is
\* 1999.00), and a listing whose price text has no digits-dot-digits pattern is
\* dropped.
C11_PriceParsing ==
    (listing_pc = "done" /\ raw_listing.price_text # None) =>
        LET text == strip(raw_listing.price_text[1])
        IN /\ re_search_through_commas(text) = None => extracted = None
           /\ (extracted # None /\ text = <<"$","1","4","3",".","9","9">>) => extracted[1].price = 14399
           /\ (extracted # None /\ text = <<"1",",","9","9","9",".","0","0">>) => extracted[1].price = 199900
           /\ extracted # None => extracted[1].price = float(re_search_through_commas(text)[1])

AffirmativeTerms == {<<"i","n"," ","s","t","o","c","k">>, <<"a","d","d"," ","t","o"," ","c","a","r","t">>}

NegativeTerms == {<<"n","o","t"," ","i","n"," ","s","t","o","c","k">>, <<"o","u","t"," ","o","f"," ","s","t","o","c","k">>, <<"s","o","l","d"," ","o","u","t">>}

\* C12: at Pokemon Center, Best Buy and GameStop an emitted listing has a stock text
\* with an affirmative term and no negative term.
C12_StockText ==
    (listing_pc = "done" /\ extracted # None
        /\ raw_listing.store \in {"Pokemon Center", "Best Buy", "GameStop"}) =>
        /\ raw_listing.availability # None
        /\ \E t \in AffirmativeTerms : Contains(t, lower(raw_listing.availability[1]))
        /\ ~\E t \in NegativeTerms : Contains(t, lower(raw_listing.availability[1]))

---------------------------------------------------------------------------
(* src/api/pokemon_tcg_tracker.py : validate_products *)

\* validate_products' exclude_terms
exclude_terms == {<<"p","l","u","s","h">>, <<"f","i","g","u","r","e">>, <<"t","o","y">>, <<"f","u","n","k","o">>, <<"c","o","s","t","u","m","e">>, <<"s","h","i","r","t">>, <<"t","-","s","h","i","r","t">>,
                  <<"v","i","d","e","o"," ","g","a","m","e">>, <<"s","w","i","t","c","h">>, <<"p","l","a","y","m","a","t">>, <<"b","i","n","d","e","r">>, <<"s","l","e","e","v","e","s">>, <<"c","a","s","e">>,
                  <<"s","t","o","r","a","g","e">>, <<"p","h","o","n","e">>, <<"p","o","s","t","e","r">>, <<"h","a","t">>, <<"b","a","g">>, <<"b","a","c","k","p","a","c","k">>, <<"k","e","y","c","h","a","i","n">>,
                  <<"n","o","t","e","b","o","o","k">>, <<"s","t","i","c","k","e","r">>, <<"m","u","g">>, <<"c","o","n","t","r","o","l","l","e","r">>, <<"c","o","n","s","o","l","e">>}

\* the terms of "Skip if URL contains suspicious patterns"
url_patterns == {<<"a","p","p","a","r","e","l">>, <<"a","c","c","e","s","s","o","r","i","e","s">>, <<"t","o","y","s">>, <<"p","l","u","s","h">>, <<"g","a","m","e","s">>, <<"c","o","l","l","e","c","t","i","b","l","e","s","/","f","i","g","u","r","e","s">>}

\* a loop body without the test of the URL
keeps_without_url_test(product, keywords, expansions, definite) ==
    LET name == lower(product.name)
    IN /\ ~\E term \in exclude_terms : Contains(term, name)
       /\ \E keyword \in keywords : Contains(keyword, name)
       /\ ~ /\ "type" \in DOMAIN product
            /\ product.type # <<"u","n","k","n","o","w","n">>
            /\ ~Contains(product.type, name)
            /\ ~(product.type = <<"b","o","o","s","t","e","r"," ","b","o","x">> /\ Contains(<<"b","o","x">>, name) /\ Contains(<<"b","o","o","s","t","e","r">>, name))
       /\ \/ \E exp \in expansions : Contains(exp, name)
          \/ \E term \in definite : Contains(term, name)

\* a loop body that skips the products that have a keyword
keeps_without_keyword(product, keywords, expansions, definite) ==
    LET name == lower(product.name)
        url == lower(product.url)
    IN /\ ~\E term \in exclude_terms : Contains(term, name)
       /\ ~\E term \in url_patterns : Contains(term, url)
       /\ ~\E keyword \in keywords : Contains(keyword, name)
       /\ ~ /\ "type" \in DOMAIN product
            /\ product.type # <<"u","n","k","n","o","w","n">>
            /\ ~Contains(product.type, name)
            /\ ~(product.type = <<"b","o","o","s","t","e","r"," ","b","o","x">> /\ Contains(<<"b","o","x">>, name) /\ Contains(<<"b","o","o","s","t","e","r">>, name))
       /\ \/ \E exp \in expansions : Contains(exp, name)
          \/ \E term \in definite : Contains(term, name)

\* a loop body without the test of the type against the name
keeps_without_type_test(product, keywords, expansions, definite) ==
    LET name == lower(product.name)
        url == lower(product.url)
    IN /\ ~\E term \in exclude_terms : Contains(term, name)
       /\ ~\E term \in url_patterns : Contains(term, url)
       /\ \E keyword \in keywords : Contains(keyword, name)
       /\ \/ \E exp \in expansions : Contains(exp, name)
          \/ \E term \in definite : Contains(term, name)

\* the loop body: TRUE when the product gets to validated_products.append, FALSE when
\* a test makes the loop continue
keeps(product, keywords, expansions, definite) ==
    LET name == lower(product.name)
        url == lower(product.url)
    IN /\ ~\E term \in exclude_terms : Contains(term, name)
       /\ ~\E term \in url_patterns : Contains(term, url)
       /\ \E keyword \in keywords : Contains(keyword, name)
       /\ ~ /\ "type" \in DOMAIN product
            /\ product.type # <<"u","n","k","n","o","w","n">>
            /\ ~Contains(product.type, name)
            /\ ~(product.type = <<"b","o","o","s","t","e","r"," ","b","o","x">> /\ Contains(<<"b","o","x">>, name) /\ Contains(<<"b","o","o","s","t","e","r">>, name))
       /\ \/ \E exp \in expansions : Contains(exp, name)
          \/ \E term \in definite : Contains(term, name)

validate_products(prods, keywords, expansions, definite) ==
    SelectSeq(prods, LAMBDA product : keeps(product, keywords, expansions, definite))

\* the dict a retailer check appends for a name and a link
Appended(name, url, store) ==
    [name |-> name, price |-> 1999, url |-> url, store |-> store, type |-> determine_product_type(name)]

\* dicts the retailer checks can append
AppendedProducts ==
    {Appended(<<"P","o","k","e","m","o","n"," ","T","C","G"," ","S","c","a","r","l","e","t"," ","B","o","o","s","t","e","r"," ","B","o","x">>, <<"h","t","t","p","s",":","/","/","w","w","w",".","t","a","r","g","e","t",".","c","o","m","/","p","/","t","c","g","-","1">>, "Target"),
     Appended(<<"P","i","k","a","c","h","u"," ","P","l","u","s","h"," ","P","a","c","k">>, <<"h","t","t","p","s",":","/","/","w","w","w",".","t","a","r","g","e","t",".","c","o","m","/","p","/","A","-","2">>, "Target"),
     Appended(<<"P","a","l","d","e","a"," ","T","i","n">>, <<"h","t","t","p","s",":","/","/","w","w","w",".","w","a","l","m","a","r","t",".","c","o","m","/","i","p","/","t","o","y","s","/","t","i","n","-","3">>, "Walmart"),
     Appended(<<"M","y","s","t","e","r","y"," ","B","o","x">>, <<"h","t","t","p","s",":","/","/","w","w","w",".","w","a","l","m","a","r","t",".","c","o","m","/","i","p","/","4">>, "Walmart"),
     Appended(<<"C","r","o","w","n"," ","Z","e","n","i","t","h"," ","T","i","n">>, <<"h","t","t","p","s",":","/","/","w","w","w",".","w","a","l","m","a","r","t",".","c","o","m","/","i","p","/","8">>, "Walmart"),
     Appended(<<"B","o","o","s","t","e","r"," ","B","u","n","d","l","e">>, <<"h","t","t","p","s",":","/","/","w","w","w",".","b","e","s","t","b","u","y",".","c","o","m","/","s","i","t","e","/","5",".","p">>, "Best Buy"),
     Appended(<<"S","c","a","r","l","e","t"," ","3","-","P","a","c","k"," ","B","l","i","s","t","e","r">>, <<"h","t","t","p","s",":","/","/","w","w","w",".","b","e","s","t","b","u","y",".","c","o","m","/","s","i","t","e","/","6",".","p">>, "Best Buy"),
     Appended(<<"V","i","o","l","e","t"," ","B","o","x"," ","o","f"," ","B","o","o","s","t","e","r","s">>, <<"h","t","t","p","s",":","/","/","w","w","w",".","p","o","k","e","m","o","n","c","e","n","t","e","r",".","c","o","m","/","p","r","o","d","u","c","t","/","t","c","g","-","7">>, "Pokemon Center")}

\* validate_products(raw_results) is called and returns
validate ==
    /\ validated_products = None
    /\ validated_products' = Some(validate_products(raw_results, tcg_keywords, recent_expansions,
                                                    definite_terms))
    /\ UNCHANGED <<nonValidateVars, allowVars, raw_results, validated_before>>

\* the terms of an allow list that are in the name of some product of raw_results
InNames(list) ==
    {term \in list : \E i \in DOMAIN raw_results : Contains(term, lower(raw_results[i].name))}

Removed ==
    Cardinality(TcgKeywords \ tcg_keywords) + Cardinality(RecentExpansions \ recent_expansions)
        + Cardinality(DefiniteTerms \ definite_terms)

\* a term is taken off one of the allow lists (a term that is in no name of raw_results
\* changes nothing and is left out) and validate_products is to run again on raw_results
remove_term ==
    /\ validated_products # None
    /\ Removed < MaxRemoved
    /\ \/ \E term \in InNames(tcg_keywords) :
             /\ tcg_keywords' = tcg_keywords \ {term}
             /\ UNCHANGED <<recent_expansions, definite_terms>>
       \/ \E term \in InNames(recent_expansions) :
             /\ recent_expansions' = recent_expansions \ {term}
             /\ UNCHANGED <<tcg_keywords, definite_terms>>
       \/ \E term \in InNames(definite_terms) :
             /\ definite_terms' = definite_terms \ {term}
             /\ UNCHANGED <<tcg_keywords, recent_expansions>>
    /\ validated_before' = validated_products
    /\ validated_products' = None
    /\ UNCHANGED <<nonValidateVars, raw_results>>

InitValidate ==
    /\ IdleApi
    /\ IdleFetch
    /\ IdleSites
    /\ IdleClassify
    /\ IdlePrice
    /\ IdleListing
    /\ tcg_keywords = TcgKeywords
    /\ recent_expansions = RecentExpansions
    /\ definite_terms = DefiniteTerms
    /\ raw_results \in UNION {[1..n -> AppendedProducts] : n \in 0..MaxProducts}
    /\ validated_products = None
    /\ validated_before = None

NextValidate ==
    \/ validate
    \/ remove_term

SpecValidate == InitValidate /\ [][NextValidate]_vars

---------------------------------------------------------------------------
(* Claims about validate_products *)

RECURSIVE IsSubsequence(_, _)
\* a is b with some of its items left out
IsSubsequence(a, b) ==
    IF a = <<>> THEN TRUE
    ELSE IF b = <<>> THEN FALSE
    ELSE IF Head(a) = Head(b) THEN IsSubsequence(Tail(a), Tail(b))
    ELSE IsSubsequence(a, Tail(b))

\* C14: the output of validate_products is a subsequence of its input, and every
\* item of it passes the five checks: no deny-list term in the name, no deny-list
\* segment in the URL, an allow-list keyword in the name, a category that agrees
\* with the name, and a recent-expansion term or a definite term in the name.
C14_StrictReduction ==
    validated_products # None =>
        /\ IsSubsequence(validated_products[1], raw_results)
        /\ \A i \in DOMAIN validated_products[1] :
              LET item == validated_products[1][i]
                  name == lower(item.name)
              IN /\ \A term \in exclude_terms : ~Contains(term, name)
                 /\ \A term \in url_patterns : ~Contains(term, lower(item.url))
                 /\ \E keyword \in tcg_keywords : Contains(keyword, name)
                 /\ \/ item.type = <<"u","n","k","n","o","w","n">>
                    \/ Contains(item.type, name)
                    \/ item.type = <<"b","o","o","s","t","e","r"," ","b","o","x">> /\ Contains(<<"b","o","x">>, name) /\ Contains(<<"b","o","o","s","t","e","r">>, name)
                 /\ \/ \E exp \in recent_expansions : Contains(exp, name)
                    \/ \E term \in definite_terms : Contains(term, name)

\* C14 witness: of two products the second is kept and the first, with a deny-list
\* segment in its URL, is dropped
C14_Witness ==
    /\ validated_products # None
    /\ Len(raw_results) = 2
    /\ validated_products[1] = <<raw_results[2]>>
    /\ \E term \in url_patterns : Contains(term, lower(raw_results[1].url))

\* C20: once a term is taken off an allow list, validate_products on the same input
\* returns no item it did not return before.
C20_MonotonicDeny ==
    (validated_before # None /\ validated_products # None) =>
        /\ IsSubsequence(validated_products[1], validated_before[1])
        /\ \A i \in DOMAIN validated_products[1] :
              \E j \in DOMAIN validated_before[1] : validated_before[1][j] = validated_products[1][i]

\* C20 witness: with a term off a list an item that was accepted is rejected
C20_Witness ==
    /\ validated_before # None
    /\ validated_products # None
    /\ Len(validated_products[1]) < Len(validated_before[1])

---------------------------------------------------------------------------
(* src/api/pokemon_tcg_tracker.py : check_all_sites and send_email_notification *)

\* the url each retailer check hands to fetch_page
SiteUrl(store) ==
    CASE store = "Pokemon Center" -> <<"h","t","t","p","s",":","/","/","w","w","w",".","p","o","k","e","m","o","n","c","e","n","t","e","r",".","c","o","m","/","c","a","t","e","g","o","r","y","/","t","r","a","d","i","n","g","-","c","a","r","d","-","g","a","m","e">>
      [] store = "Target" -> <<"h","t","t","p","s",":","/","/","w","w","w",".","t","a","r","g","e","t",".","c","o","m","/","s","?","s","e","a","r","c","h","T","e","r","m","=","p","o","k","e","m","o","n","+","t","r","a","d","i","n","g","+","c","a","r","d","s">>
      [] store = "Walmart" -> <<"h","t","t","p","s",":","/","/","w","w","w",".","w","a","l","m","a","r","t",".","c","o","m","/","s","e","a","r","c","h","?","q","=","p","o","k","e","m","o","n","+","t","r","a","d","i","n","g","+","c","a","r","d","s">>
      [] store = "Best Buy" -> <<"h","t","t","p","s",":","/","/","w","w","w",".","b","e","s","t","b","u","y",".","c","o","m","/","s","i","t","e","/","s","e","a","r","c","h","p","a","g","e",".","j","s","p","?","s","t","=","p","o","k","e","m","o","n","+","t","r","a","d","i","n","g","+","c","a","r","d","+","g","a","m","e">>
      [] store = "GameStop" -> <<"h","t","t","p","s",":","/","/","w","w","w",".","g","a","m","e","s","t","o","p",".","c","o","m","/","s","e","a","r","c","h","/","?","q","=","p","o","k","e","m","o","n","+","t","r","a","d","i","n","g","+","c","a","r","d","s","&","l","a","n","g","=","d","e","f","a","u","l","t">>

\* what a retailer check returns: [] when fetch_page gave None, else the dicts its loop
\* appended, in the order of the product elements
check_store(html, thresholds) ==
    IF html = None THEN <<>>
    ELSE LET passes == [i \in DOMAIN html[1] |-> store_product(html[1][i], thresholds)]
             appended == SelectSeq(passes, LAMBDA p : p # None)
         IN [i \in DOMAIN appended |-> appended[i][1]]

\* a check_all_sites that gives up the other retailers when a page could not be fetched
after_check_give_up(pc, html) ==
    IF html = None THEN "validate"
    ELSE CASE pc = "pokemoncenter" -> "target"
           [] pc = "target" -> "walmart"
           [] pc = "walmart" -> "bestbuy"
           [] pc = "bestbuy" -> "gamestop"
           [] pc = "gamestop" -> "validate"

\* the statement of check_all_sites after the retailer check at pc has returned,
\* whatever fetch_page gave it
after_check(pc, html) ==
    CASE pc = "pokemoncenter" -> "target"
      [] pc = "target" -> "walmart"
      [] pc = "walmart" -> "bestbuy"
      [] pc = "bestbuy" -> "gamestop"
      [] pc = "gamestop" -> "validate"

\* raw_results.extend(self.check_<retailer>())
extend_raw_results(pc, store) ==
    /\ sites_pc = pc
    /\ fetched' = Append(fetched, SiteUrl(store))
    /\ raw_results' = raw_results \o check_store(pages[store], retail_price_thresholds)
    /\ sites_pc' = after_check(pc, pages[store])
    /\ UNCHANGED <<nonSitesVars, priceVars, configVars, validated_products, in_stock_items, returned,
                   files, snapshots, outbox, smtp_log, clock, run_pc, runs, run_slept>>

check_all_sites_pokemoncenter ==
    /\ sites_pc = "pokemoncenter"
    /\ extend_raw_results("pokemoncenter", "Pokemon Center")

check_all_sites_target ==
    /\ sites_pc = "target"
    /\ extend_raw_results("target", "Target")

check_all_sites_walmart ==
    /\ sites_pc = "walmart"
    /\ extend_raw_results("walmart", "Walmart")

check_all_sites_bestbuy ==
    /\ sites_pc = "bestbuy"
    /\ extend_raw_results("bestbuy", "Best Buy")

check_all_sites_gamestop ==
    /\ sites_pc = "gamestop"
    /\ extend_raw_results("gamestop", "GameStop")

\* validated_products = self.validate_products(raw_results); self.in_stock_items = it
check_all_sites_validate ==
    /\ sites_pc = "validate"
    /\ validated_products' = Some(validate_products(raw_results, tcg_keywords, recent_expansions,
                                                    definite_terms))
    /\ in_stock_items' = validated_products'[1]
    /\ sites_pc' = "save"
    /\ UNCHANGED <<nonSitesVars, priceVars, configVars, raw_results, returned, fetched, files,
                   snapshots, outbox, smtp_log, clock, run_pc, runs, run_slept>>

\* clock ticks in a second
TicksPerSecond == 2

\* datetime.now().strftime('%Y-%m-%d_%H-%M-%S'): the time to the second
strftime(t) == t \div TicksPerSecond

\* open(f'results_{timestamp}.json', 'w') and json.dump: the file of that name is made,
\* or written over, with the results of this call; some time has passed since the last
\* reading of the clock
check_all_sites_save ==
    /\ sites_pc = "save"
    /\ \E elapsed \in 1..TicksPerSecond :
          /\ clock' = clock + elapsed
          /\ files' = [stamp \in DOMAIN files \cup {strftime(clock')} |->
                          IF stamp = strftime(clock')
                          THEN [call |-> runs, products |-> validated_products[1]]
                          ELSE files[stamp]]
          /\ snapshots' = Append(snapshots, strftime(clock'))
    /\ sites_pc' = "notify"
    /\ UNCHANGED <<nonSitesVars, priceVars, configVars, raw_results, validated_products, in_stock_items,
                   returned, fetched, outbox, smtp_log, run_pc, runs, run_slept>>

\* open() raises (OSError): check_all_sites is left by the exception
check_all_sites_save_raises ==
    /\ sites_pc = "save"
    /\ \E elapsed \in 1..TicksPerSecond : clock' = clock + elapsed
    /\ sites_pc' = "raised"
    /\ UNCHANGED <<nonSitesVars, priceVars, configVars, raw_results, validated_products, in_stock_items,
                   returned, fetched, files, snapshots, outbox, smtp_log, run_pc, runs, run_slept>>

\* a send_email_notification without the test of sender, recipient and password
opens_smtp_untested(items, config) ==
    items # <<>> /\ config # <<>>

\* send_email_notification up to smtplib.SMTP: TRUE when it gets there, FALSE when it
\* returns before (no items, no email_config, or one of sender, recipient, password
\* missing)
opens_smtp(items, config) ==
    /\ items # <<>>
    /\ config # <<>>
    /\ config.sender # None /\ config.recipient # None /\ config.password # None

\* "if validated_products: self.send_email_notification(validated_products)" and
\* "return validated_products". The SMTP session delivers the message, or raises and
\* the except clause of send_email_notification logs it.
check_all_sites_notify ==
    /\ sites_pc = "notify"
    /\ IF validated_products[1] # <<>> /\ opens_smtp(validated_products[1], email_config)
       THEN \E delivered \in BOOLEAN :
               /\ smtp_log' = Append(smtp_log, IF delivered THEN "sent" ELSE "raised")
               /\ outbox' = IF delivered
                            THEN Append(outbox, [From |-> email_config.sender, To |-> email_config.recipient,
                                                 items |-> validated_products[1]])
                            ELSE outbox
       ELSE UNCHANGED <<smtp_log, outbox>>
    /\ returned' = validated_products
    /\ sites_pc' = "returned"
    /\ UNCHANGED <<nonSitesVars, priceVars, configVars, raw_results, validated_products, in_stock_items,
                   fetched, files, snapshots, clock, run_pc, runs, run_slept>>

\* product elements of a retailer's page
ScenarioA(store) ==
    [store |-> store,
     name |-> Some(<<"P","o","k","é","m","o","n"," ","T","C","G"," ","S","c","a","r","l","e","t"," ","&"," ","V","i","o","l","e","t"," ","T","w","i","l","i","g","h","t"," ","M","a","s","q","u","e","r","a","d","e"," ","B","o","o","s","t","e","r"," ","B","o","x">>),
     price_text |-> Some(<<"$","1","4","3",".","9","9">>), href |-> Some(<<"/","p","r","o","d","u","c","t","/","6","9","9">>),
     availability |-> Some(<<"I","n"," ","S","t","o","c","k">>)]

\* the product elements of the model's pages, by what they show
SiteElement(store, kind) ==
    CASE kind = "scenario A" -> ScenarioA(store)
      [] kind = "booster box" ->
            [store |-> store, name |-> Some(<<"P","a","l","d","e","a"," ","B","o","o","s","t","e","r"," ","B","o","x">>), price_text |-> Some(<<"$","1","4","3",".","9","9">>),
             href |-> Some(<<"/","p","r","o","d","u","c","t","/","t","c","g","-","7","0","0">>), availability |-> Some(<<"I","n"," ","S","t","o","c","k">>)]
      [] kind = "plush" ->
            [store |-> store, name |-> Some(<<"P","i","k","a","c","h","u"," ","P","l","u","s","h"," ","B","o","o","s","t","e","r"," ","B","o","x">>), price_text |-> Some(<<"$","9","9",".","9","9">>),
             href |-> Some(<<"/","p","r","o","d","u","c","t","/","t","c","g","-","7","0","1">>), availability |-> Some(<<"I","n"," ","S","t","o","c","k">>)]

ElementKinds == {"scenario A", "booster box", "plush"}

\* the page of a retailer: the elements placed at it, in their order
PageOf(store, placed) ==
    LET mine == SelectSeq(placed, LAMBDA p : p[1] = store)
    IN Some([i \in DOMAIN mine |-> SiteElement(store, mine[i][2])])

\* what fetch_page gives for the pages of the five retailers: None for at most MaxFailed
\* of them, and pages with at most MaxElements product elements in all
Worlds ==
    {[s \in Stores |-> IF s \in failed THEN None ELSE PageOf(s, placed)] :
        failed \in {f \in SUBSET Stores : Cardinality(f) <= MaxFailed},
        placed \in UNION {[1..n -> Stores \X ElementKinds] : n \in 0..MaxElements}}

\* email_config of config.json: no entry, or sender, recipient and password, each there or not
EmailConfigs ==
    {<<>>} \cup {c \in [sender : {None, Some("tracker@example.com")},
                        recipient : {None, Some("me@example.com")},
                        password : {None, Some("app-password")}] :
                    Cardinality({f \in {"sender", "recipient", "password"} : c[f] = None}) <= 1}

\* the threshold table of the runs
ScenarioThresholds == <<[key |-> <<"b","o","o","s","t","e","r"," ","b","o","x">>, ceiling |-> 15000]>>

\* the tracker constructed and check_all_sites called (--once)
InitSites ==
    /\ IdleApi
    /\ IdleFetch
    /\ IdleClassify
    /\ IdleListing
    /\ cand = [name |-> <<>>, price |-> 0, store |-> "none"]
    /\ cand_type = None
    /\ is_retail_price = None
    /\ retail_price_thresholds = ScenarioThresholds
    /\ tcg_keywords = TcgKeywords
    /\ recent_expansions = RecentExpansions
    /\ definite_terms = DefiniteTerms
    /\ raw_results = <<>>
    /\ validated_products = None
    /\ validated_before = None
    /\ pages \in Worlds
    /\ email_config \in EmailConfigs
    /\ tracker_interval = 1800
    /\ sites_pc = "pokemoncenter"
    /\ in_stock_items = <<>>
    /\ returned = None
    /\ fetched = <<>>
    /\ files = <<>>
    /\ snapshots = <<>>
    /\ outbox = <<>>
    /\ smtp_log = <<>>
    /\ clock = 0
    /\ run_pc = "once"
    /\ runs = 1
    /\ config_json = [check_interval |-> None]
    /\ run_slept = None

NextSites ==
    \/ check_all_sites_pokemoncenter
    \/ check_all_sites_target
    \/ check_all_sites_walmart
    \/ check_all_sites_bestbuy
    \/ check_all_sites_gamestop
    \/ check_all_sites_validate
    \/ check_all_sites_save
    \/ check_all_sites_save_raises
    \/ check_all_sites_notify

SpecSites == InitSites /\ [][NextSites]_vars

---------------------------------------------------------------------------
(* Claims about check_all_sites *)

\* C13: every item of the result was accepted by the Link Validator, which fetches
\* the item's url through fetch_page: the url of each returned item is among the
\* urls fetch_page was called with.
C13_LinkValidated ==
    returned # None =>
        \A i \in DOMAIN returned[1] : \E k \in DOMAIN fetched : fetched[k] = returned[1][i].url

\* the origin of each retailer
Origin(store) ==
    CASE store = "Pokemon Center" -> <<"h","t","t","p","s",":","/","/","w","w","w",".","p","o","k","e","m","o","n","c","e","n","t","e","r",".","c","o","m">>
      [] store = "Target" -> <<"h","t","t","p","s",":","/","/","w","w","w",".","t","a","r","g","e","t",".","c","o","m">>
      [] store = "Walmart" -> <<"h","t","t","p","s",":","/","/","w","w","w",".","w","a","l","m","a","r","t",".","c","o","m">>
      [] store = "Best Buy" -> <<"h","t","t","p","s",":","/","/","w","w","w",".","b","e","s","t","b","u","y",".","c","o","m">>
      [] store = "GameStop" -> <<"h","t","t","p","s",":","/","/","w","w","w",".","g","a","m","e","s","t","o","p",".","c","o","m">>

\* the pages are fetched and the listing of scenario A is the only one, at store s
OnlyScenarioA(s) ==
    /\ pages[s] = Some(<<ScenarioA(s)>>)
    /\ \A t \in Stores \ {s} : pages[t] = Some(<<>>)

\* C15: with the listing of scenario A as the only listing, at any of the five
\* retailers, and the threshold table {"booster box": 150.00}, the call returns
\* exactly one item: that listing, of category booster box, its url the retailer's
\* origin followed by /product/699.
C15_ScenarioA ==
    \A s \in Stores :
        (returned # None /\ OnlyScenarioA(s) /\ retail_price_thresholds = ScenarioThresholds) =>
            /\ Len(returned[1]) = 1
            /\ returned[1][1].name = ScenarioA(s).name[1]
            /\ returned[1][1].price = 14399
            /\ returned[1][1].type = <<"b","o","o","s","t","e","r"," ","b","o","x">>
            /\ returned[1][1].url = Origin(s) \o <<"/","p","r","o","d","u","c","t","/","6","9","9">>

\* the retailers in the order check_all_sites is to check them
SiteOrder == <<"Pokemon Center", "Target", "Walmart", "Best Buy", "GameStop">>

\* what check_all_sites returns when fetch_page gives w for the pages
ResultOf(w) ==
    validate_products(check_store(w["Pokemon Center"], retail_price_thresholds)
                          \o check_store(w["Target"], retail_price_thresholds)
                          \o check_store(w["Walmart"], retail_price_thresholds)
                          \o check_store(w["Best Buy"], retail_price_thresholds)
                          \o check_store(w["GameStop"], retail_price_thresholds),
                      TcgKeywords, RecentExpansions, DefiniteTerms)

\* C16: a page that could not be fetched does not end the call: the pages are fetched
\* in the fixed order, all five of them before validation, and the call returns what
\* it returns when the pages that could not be fetched are fetched and empty.
C16_FailedFetchIsEmptyPage ==
    /\ Len(fetched) <= 5
    /\ \A k \in DOMAIN fetched : fetched[k] = SiteUrl(SiteOrder[k])
    /\ sites_pc \in {"validate", "save", "notify", "returned", "raised"} => Len(fetched) = 5
    /\ returned # None =>
          returned[1] = ResultOf([s \in Stores |-> IF pages[s] = None THEN Some(<<>>) ELSE pages[s]])

\* C16 witness: the first page could not be fetched and the call returns the item of
\* a later retailer
C16_Witness ==
    /\ pages["Pokemon Center"] = None
    /\ returned # None
    /\ returned[1] # <<>>

CompleteEmailConfig ==
    /\ email_config # <<>>
    /\ email_config.sender # None /\ email_config.recipient # None /\ email_config.password # None

\* C17 in a state: at most one SMTP session and one message in the call; no session
\* and no message when the result is empty or the configuration is absent or
\* incomplete.
C17_Sessions ==
    /\ Len(smtp_log) <= 1
    /\ Len(outbox) <= 1
    /\ Len(outbox) <= Len(smtp_log)
    /\ smtp_log # <<>> => (validated_products # None /\ validated_products[1] # <<>> /\ CompleteEmailConfig)

\* C17 in a step: the notification step always ends in the return of the results
C17_Returns ==
    sites_pc = "notify" => (sites_pc' = "returned" /\ returned' = validated_products)

\* C17: the notification is sent at most once per call, never for an empty result
\* or with an absent or incomplete configuration, and neither an incomplete
\* configuration nor a failed delivery keeps the call from returning its results.
C17_NotificationNeverFails == []C17_Sessions /\ [][C17_Returns]_vars

\* C17 witness: the delivery failed and the call returned its results
C17_Witness ==
    /\ sites_pc = "returned"
    /\ smtp_log = <<"raised">>
    /\ outbox = <<>>
    /\ returned # None
    /\ returned[1] # <<>>

---------------------------------------------------------------------------
(* src/api/pokemon_tcg_tracker.py : run *)

\* dict.get(key, default) for a key that is there (Some) or not (None)
dict_get(value, default) == IF value = None THEN default ELSE value[1]

\* "results = self.check_all_sites()": the loop calls check_all_sites
run_check ==
    /\ run_pc = "loop"
    /\ sites_pc = "idle"
    /\ runs < MaxRuns
    /\ runs' = runs + 1
    /\ sites_pc' = "pokemoncenter"
    /\ raw_results' = <<>>
    /\ validated_products' = None
    /\ returned' = None
    /\ fetched' = <<>>
    /\ smtp_log' = <<>>
    /\ UNCHANGED <<nonSitesVars, priceVars, configVars, in_stock_items, files, snapshots, outbox,
                   clock, run_pc, run_slept>>

\* check_all_sites returned: the results are logged and time.sleep(self.check_interval)
\* is called
run_sleep ==
    /\ run_pc = "loop"
    /\ sites_pc = "returned"
    /\ run_pc' = "sleep"
    /\ run_slept' = Some(tracker_interval)
    /\ sites_pc' = "idle"
    /\ UNCHANGED <<nonSitesVars, priceVars, configVars, raw_results, validated_products, in_stock_items,
                   returned, fetched, files, snapshots, outbox, smtp_log, clock, runs>>

\* a loop whose except clause ends it
run_cooldown_break ==
    /\ run_pc = "loop"
    /\ sites_pc = "raised"
    /\ run_pc' = "stopped"
    /\ sites_pc' = "idle"
    /\ UNCHANGED <<nonSitesVars, priceVars, configVars, raw_results, validated_products, in_stock_items,
                   returned, fetched, files, snapshots, outbox, smtp_log, clock, runs, run_slept>>

\* check_all_sites raised: "except Exception" logs the error and time.sleep(60) is called
run_cooldown ==
    /\ run_pc = "loop"
    /\ sites_pc = "raised"
    /\ run_pc' = "cooldown"
    /\ run_slept' = Some(60)
    /\ sites_pc' = "idle"
    /\ UNCHANGED <<nonSitesVars, priceVars, configVars, raw_results, validated_products, in_stock_items,
                   returned, fetched, files, snapshots, outbox, smtp_log, clock, runs>>

\* time.sleep returns and the while loop goes round
run_wake ==
    /\ run_pc \in {"sleep", "cooldown"}
    /\ clock' = clock + run_slept[1] * TicksPerSecond
    /\ run_pc' = "loop"
    /\ UNCHANGED <<nonSitesVars, priceVars, configVars, raw_results, validated_products, in_stock_items,
                   returned, fetched, files, snapshots, outbox, smtp_log, sites_pc, runs, run_slept>>

\* KeyboardInterrupt while the loop sleeps: the loop is left
run_interrupt ==
    /\ run_pc \in {"sleep", "cooldown"}
    /\ run_pc' = "stopped"
    /\ UNCHANGED <<nonSitesVars, priceVars, configVars, raw_results, validated_products, in_stock_items,
                   returned, fetched, files, snapshots, outbox, smtp_log, clock, sites_pc, runs, run_slept>>

\* the pages of the runs of the loop: nothing on them, or one booster box at Target
RunWorlds ==
    {[s \in Stores |-> Some(<<>>)],
     [s \in Stores |-> IF s = "Target" THEN Some(<<SiteElement(s, "booster box")>>) ELSE Some(<<>>)]}

\* check_interval of config.json: not there, or a number of seconds
ConfigIntervals == {None, Some(0), Some(3600)}

\* the tracker constructed from config.json and run() called
InitRun ==
    /\ IdleApi
    /\ IdleFetch
    /\ IdleClassify
    /\ IdleListing
    /\ cand = [name |-> <<>>, price |-> 0, store |-> "none"]
    /\ cand_type = None
    /\ is_retail_price = None
    /\ retail_price_thresholds = ScenarioThresholds
    /\ tcg_keywords = TcgKeywords
    /\ recent_expansions = RecentExpansions
    /\ definite_terms = DefiniteTerms
    /\ raw_results = <<>>
    /\ validated_products = None
    /\ validated_before = None
    /\ pages \in RunWorlds
    /\ email_config \in {<<>>, [sender |-> Some("tracker@example.com"),
                                recipient |-> Some("me@example.com"),
                                password |-> Some("app-password")]}
    /\ config_json \in [check_interval : ConfigIntervals]
    /\ tracker_interval = dict_get(config_json.check_interval, 1800)
    /\ sites_pc = "idle"
    /\ in_stock_items = <<>>
    /\ returned = None
    /\ fetched = <<>>
    /\ files = <<>>
    /\ snapshots = <<>>
    /\ outbox = <<>>
    /\ smtp_log = <<>>
    /\ clock = 0
    /\ run_pc = "loop"
    /\ runs = 0
    /\ run_slept = None

\* the steps of the loop and of the calls it makes
RunSteps ==
    \/ run_check
    \/ check_all_sites_pokemoncenter
    \/ check_all_sites_target
    \/ check_all_sites_walmart
    \/ check_all_sites_bestbuy
    \/ check_all_sites_gamestop
    \/ check_all_sites_validate
    \/ check_all_sites_save
    \/ check_all_sites_save_raises
    \/ check_all_sites_notify
    \/ run_sleep
    \/ run_cooldown
    \/ run_wake

NextRun ==
    \/ RunSteps
    \/ run_interrupt

SpecRun == InitRun /\ [][NextRun]_vars

\* the interpreter goes on with the next statement, and every sleep ends
SpecRunFair == SpecRun /\ WF_vars(run_check) /\ WF_vars(run_cooldown) /\ WF_vars(run_wake)

---------------------------------------------------------------------------
(* Claims about run and the snapshot files *)

\* C18: every call of check_all_sites that saves writes a snapshot file of its own:
\* no two calls write a file of the same name, so none writes over an earlier one.
C18_OwnSnapshot ==
    /\ Cardinality(DOMAIN files) = Len(snapshots)
    /\ \A i, j \in DOMAIN snapshots : snapshots[i] = snapshots[j] => i = j

\* C19 in a step: a call of check_all_sites that raised is followed by a sleep of 60
\* seconds, and one that returned by a sleep of check_interval seconds, 1800 when
\* config.json gives none; neither ends the loop.
C19_Sleeps ==
    /\ (run_pc = "loop" /\ sites_pc = "raised") => (run_pc' = "cooldown" /\ run_slept' = Some(60))
    /\ (run_pc = "loop" /\ sites_pc = "returned") =>
          /\ run_pc' = "sleep"
          /\ run_slept' = Some(tracker_interval)
          /\ config_json.check_interval = None => run_slept' = Some(1800)
    /\ (run_pc # "stopped" /\ run_pc' = "stopped") => run_pc \in {"sleep", "cooldown"}

\* C19 in a behaviour: after the n-th call raised, the loop makes another call (or is
\* stopped by the user while it sleeps)
C19_NextCall ==
    \A n \in 1..(MaxRuns - 1) :
        (run_pc = "loop" /\ sites_pc = "raised" /\ runs = n) ~> (runs = n + 1 \/ run_pc = "stopped")

\* C19: no error stops the loop: a check that raises is followed by a cooldown and
\* then by another check, and a check that returns by a sleep of check_interval
\* seconds (1800 by default).
C19_LoopGoesOn == [][C19_Sleeps]_vars /\ C19_NextCall

\* C19 witness: the loop is in a call of check_all_sites after a call that raised
C19_Witness ==
    /\ run_pc = "loop"
    /\ sites_pc = "pokemoncenter"
    /\ runs = 2
    /\ run_slept = Some(60)

---------------------------------------------------------------------------
(* Claims about the runs of the request-serving wrapper *)

\* the positions of a run between its first statement and its finally clause
Running == {"started", "built", "published", "stamped", "failed"}

\* C21 in a step: the step that ends a run, after success or after an exception,
\* leaves is_scraping false, and a trigger with the valid key handled while
\* is_scraping is false is accepted.
C21_EndsCleared ==
    /\ \A t \in TaskIds :
          (tasks[t].pc \in Running /\ tasks'[t].pc \notin Running) =>
              (tasks'[t].pc = "none" /\ ~is_scraping')
    /\ \A config \in Configs :
          (~is_scraping /\ post_scrape(config, Some(API_KEY))) =>
              (response'.status = 200 /\ \E t \in TaskIds : tasks'[t].pc = "scheduled" /\ tasks[t].pc = "none")

\* the number of statements a run at this position has before it, at most
RunRank(pc) ==
    CASE pc = "started" -> 4
      [] pc = "built" -> 3
      [] pc = "published" -> 2
      [] pc \in {"stamped", "failed"} -> 1
      [] OTHER -> 0

\* C21 in a step: every step of a started run brings it nearer to its end
C21_Progress ==
    \A t \in TaskIds :
        (tasks[t].pc \in Running /\ tasks'[t] # tasks[t]) => RunRank(tasks'[t].pc) < RunRank(tasks[t].pc)

\* C21 in a state: a started run can always take its next step once the response
\* being sent has left
C21_NeverStuck == \A t \in TaskIds : (tasks[t].pc \in Running /\ Sent) => ENABLED RunStep(t)

\* C21: every started run, run_scraper or run_scraper_local, completed or raised,
\* goes on to its end and ends with is_scraping false; is_scraping is false again
\* and again, so that the service never stays stuck rejecting triggers.
C21_FlagCleared ==
    /\ []C21_NeverStuck
    /\ [][C21_EndsCleared /\ C21_Progress]_vars
    /\ []<>~is_scraping

\* C21 witness: after a run that succeeded and with is_scraping false again, a new
\* trigger has been accepted
C21_Witness ==
    /\ ~is_scraping
    /\ last_update_time # None
    /\ response.op = "scrape"
    /\ response.status = 200
    /\ \E t \in TaskIds : tasks[t].pc = "scheduled"

\* C22 in a step, the failed run: a run fails only before its publication, and
\* neither the step in which it fails nor its steps after that change the served
\* result set or the last-update time.
C22_FailureChangesNothing ==
    \A t \in TaskIds :
       /\ (tasks'[t].pc = "failed" /\ tasks[t].pc # "failed") => tasks[t].pc = "started"
       /\ (tasks'[t] # tasks[t] /\ "failed" \in {tasks[t].pc, tasks'[t].pc}) =>
              (last_results' = last_results /\ last_update_time' = last_update_time)

\* C22 in a step, the two writes: the served result set is written only by the
\* publication of a run that has built its list, the last-update time only by the
\* next statement of that run, which nothing can come before, and to a time; the
\* last-update time is never made null again.
C22_WrittenTogether ==
    /\ last_results' # last_results =>
          \E t \in TaskIds : tasks[t].pc = "built" /\ tasks'[t].pc = "published"
    /\ last_update_time' # last_update_time =>
          \E t \in TaskIds : tasks[t].pc = "published" /\ tasks'[t].pc = "stamped"
    /\ \A t \in TaskIds :
          (tasks[t].pc = "published" /\ tasks'[t] # tasks[t]) =>
              (tasks'[t].pc = "stamped" /\ last_update_time' # None)
    /\ last_update_time # None => last_update_time' # None

\* C22 in a state: while the last-update time is null the served result set is the
\* initial one, but for a run that stands between its two writes.
C22_NullBeforeSuccess ==
    last_update_time = None => (last_results = <<>> \/ \E t \in TaskIds : tasks[t].pc = "published")

\* C22: a run that fails leaves the served result set and the last-update time as
\* they were; both are written only together, at the end of the try body of a run
\* that succeeds, and the last-update time is null exactly until the first such run.
C22_FailedRunFrame ==
    /\ []C22_NullBeforeSuccess
    /\ [][C22_FailureChangesNothing /\ C22_WrittenTogether]_vars

\* C22 witness: a run has failed after an earlier run succeeded, and the results
\* and the time of the earlier run are still served
C22_Witness ==
    /\ \E t \in TaskIds : tasks[t].pc = "failed"
    /\ last_results # <<>>
    /\ last_update_time # None

---------------------------------------------------------------------------
(* check_all_sites over listings of every category *)

\* names of listings: labelled by the first chain of the classifier, by its generic
\* terms, with and without the label's text in the name
TypeNames ==
    {<<"P","a","l","d","e","a"," ","3","-","P","a","c","k"," ","B","l","i","s","t","e","r">>, <<"P","a","l","d","e","a"," ","B","o","o","s","t","e","r"," ","P","a","c","k">>, <<"S","c","a","r","l","e","t"," ","T","r","a","i","n","e","r"," ","B","o","x">>,
     <<"P","r","e","m","i","u","m"," ","V","i","o","l","e","t"," ","C","o","l","l","e","c","t","i","o","n">>, <<"P","a","l","d","e","a"," ","C","o","l","l","e","c","t","i","o","n">>, <<"P","a","l","d","e","a"," ","S","p","e","c","i","a","l"," ","C","o","l","l","e","c","t","i","o","n">>,
     <<"S","c","a","r","l","e","t"," ","B","o","x"," ","o","f"," ","B","o","o","s","t","e","r","s">>, <<"S","c","a","r","l","e","t"," ","E","l","i","t","e"," ","T","r","a","i","n","e","r"," ","B","o","x"," ","2","-","P","a","c","k">>}

\* a product element with this name, priced below every ceiling and in stock
TypeElement(store, name) ==
    [store |-> store, name |-> Some(name), price_text |-> Some(<<"$","4","9",".","9","9">>),
     href |-> Some(<<"/","p","r","o","d","u","c","t","/","t","c","g","-","7","1","0">>), availability |-> Some(<<"I","n"," ","S","t","o","c","k">>)]

\* a threshold table with a key for each label
TypeThresholds ==
    <<[key |-> <<"b","o","o","s","t","e","r"," ","b","o","x">>, ceiling |-> 15000], [key |-> <<"e","l","i","t","e"," ","t","r","a","i","n","e","r"," ","b","o","x">>, ceiling |-> 6000],
      [key |-> <<"b","o","o","s","t","e","r"," ","p","a","c","k">>, ceiling |-> 6000], [key |-> <<"c","o","l","l","e","c","t","i","o","n">>, ceiling |-> 6000]>>

\* pages with at most MaxElements product elements in all
TypeWorlds ==
    {[s \in Stores |->
         LET mine == SelectSeq(placed, LAMBDA p : p[1] = s)
         IN Some([i \in DOMAIN mine |-> TypeElement(s, mine[i][2])])] :
        placed \in UNION {[1..n -> Stores \X TypeNames] : n \in 0..MaxElements}}

\* the tracker constructed and check_all_sites called (--once)
InitTypes ==
    /\ IdleApi
    /\ IdleFetch
    /\ IdleClassify
    /\ IdleListing
    /\ cand = [name |-> <<>>, price |-> 0, store |-> "none"]
    /\ cand_type = None
    /\ is_retail_price = None
    /\ retail_price_thresholds = TypeThresholds
    /\ tcg_keywords = TcgKeywords
    /\ recent_expansions = RecentExpansions
    /\ definite_terms = DefiniteTerms
    /\ raw_results = <<>>
    /\ validated_products = None
    /\ validated_before = None
    /\ pages \in TypeWorlds
    /\ email_config = <<>>
    /\ tracker_interval = 1800
    /\ sites_pc = "pokemoncenter"
    /\ in_stock_items = <<>>
    /\ returned = None
    /\ fetched = <<>>
    /\ files = <<>>
    /\ snapshots = <<>>
    /\ outbox = <<>>
    /\ smtp_log = <<>>
    /\ clock = 0
    /\ run_pc = "once"
    /\ runs = 1
    /\ config_json = [check_interval |-> None]
    /\ run_slept = None

SpecTypes == InitTypes /\ [][NextSites]_vars

---------------------------------------------------------------------------
(* Claims about the classifier and validate_products in one run *)

\* the agreement of a product's type with its name that validate_products asks for
TypeAgrees(p) ==
    \/ p.type = <<"u","n","k","n","o","w","n">>
    \/ Contains(p.type, lower(p.name))
    \/ p.type = <<"b","o","o","s","t","e","r"," ","b","o","x">> /\ Contains(<<"b","o","x">>, lower(p.name)) /\ Contains(<<"b","o","o","s","t","e","r">>, lower(p.name))

\* the type was given by the generic terms or the last fallback of the classifier
ByFallback(p) == obvious_type(lower(p.name)) = None

\* "pack" and not "booster" in the name
PackWithoutBooster(p) == Contains(<<"p","a","c","k">>, lower(p.name)) /\ ~Contains(<<"b","o","o","s","t","e","r">>, lower(p.name))

\* what C23 says of one item of a result, but for the listings with "pack" and no
\* "booster" in the name
C23_Item(p) ==
    /\ TypeAgrees(p)
    /\ ~(ByFallback(p) /\ p.type \in {<<"e","l","i","t","e"," ","t","r","a","i","n","e","r"," ","b","o","x">>, <<"p","r","e","m","i","u","m"," ","c","o","l","l","e","c","t","i","o","n">>, <<"s","p","e","c","i","a","l"," ","c","o","l","l","e","c","t","i","o","n">>})

\* C23 as stated: every item of the result of check_all_sites has a type that is
\* unknown, or is in the lower-cased name, or is booster box with "box" and
\* "booster" in the name; no item has a name with "pack" and without "booster",
\* and none has a type of elite trainer box, premium collection or special
\* collection given by the generic fallbacks.
C23_NoPackWithoutBooster ==
    returned # None =>
        \A i \in DOMAIN returned[1] : C23_Item(returned[1][i]) /\ ~PackWithoutBooster(returned[1][i])

\* C23 amended: as C23, but of the names with "pack" and without "booster" only
\* those that the classifier labels booster pack never appear; one that has
\* "elite trainer box" or " etb" as well is labelled elite trainer box and can appear.
C23_TypeAgreesWithName ==
    returned # None =>
        \A i \in DOMAIN returned[1] :
            /\ C23_Item(returned[1][i])
            /\ ~(PackWithoutBooster(returned[1][i]) /\ returned[1][i].type = <<"b","o","o","s","t","e","r"," ","p","a","c","k">>)
            /\ PackWithoutBooster(returned[1][i]) =>
                  /\ returned[1][i].type = <<"e","l","i","t","e"," ","t","r","a","i","n","e","r"," ","b","o","x">>
                  /\ \/ Contains(<<"e","l","i","t","e"," ","t","r","a","i","n","e","r"," ","b","o","x">>, lower(returned[1][i].name))
                     \/ Contains(<<" ","e","t","b">>, lower(returned[1][i].name))

\* C23 witness: check_all_sites has returned, and a listing that a retailer check
\* appended with a type that does not agree with its name is not in the result
C23_Witness ==
    /\ returned # None
    /\ \E i \in DOMAIN raw_results :
          /\ ~TypeAgrees(raw_results[i])
          /\ \A j \in DOMAIN returned[1] : returned[1][j] # raw_results[i]

\* the link of the product element, when the retailer check has put the origin before it
RelativeLink(p) == SubSeq(p.url, Len(Origin(p.store)) + 1, Len(p.url))

\* C24: the URL test of validate_products depends on the path of the listing only:
\* at each of the five retailers, a listing that a retailer check appended with the
\* origin before its relative link, whose relative link has no deny-list term and
\* that passes every other test of validate_products, is in the result.
C24_UrlCheckByPath ==
    returned # None =>
        \A i \in DOMAIN raw_results :
            LET p == raw_results[i]
                link == RelativeLink(p)
            IN  ( /\ startswith(p.url, Origin(p.store))
                  /\ ~\E term \in url_patterns : Contains(term, lower(link))
                  /\ keeps([p EXCEPT !.url = link], tcg_keywords, recent_expansions, definite_terms) )
                => \E j \in DOMAIN returned[1] : returned[1][j] = p

===========================================================================
